---- MODULE Spec2Model ----
(***************************************************************************)
(* AiBesty: a model of the storage layer (MemStorage / DatabaseStorage),   *)
(* the HTTP handlers (server/index.ts and registerRoutes) and the client   *)
(* turn drivers (useConversation.processMessage, ConversationView's        *)
(* handleMessage).                                                         *)
(*                                                                         *)
(* Text is a sequence of lexemes: the lexeme " " is white space, any other *)
(* lexeme is text that neither starts nor ends with white space.           *)
(* Timestamps are in units of 30 minutes.                                  *)
(***************************************************************************)
EXTENDS Integers, Sequences, FiniteSets, TLC

VARIABLES
    server,         \* which version of the duplicated handlers is registered
    storageImpl,    \* "mem" (MemStorage) or "db" (DatabaseStorage)
    openaiKey,      \* process.env.OPENAI_API_KEY is set
    now,            \* the clock read by new Date()
    users,          \* sequence of User rows, users[i].id = i
    authTokens,     \* sequence of AuthToken rows, the token string is the index
    sessions,       \* session id -> req.session.userId (0 = unset)
    personas,       \* sequence of Persona rows
    conversations,  \* sequence of Conversation rows
    messages,       \* sequence of Message rows in insertion (id) order
    verifyOk,       \* history: token -> number of successful verifies (saturating)
    lastOp,         \* history: the last request sent by hand and its HTTP status
    conversation,   \* client: useConversation's conversation (0 = null)
    isListening,    \* client: useConversation state
    isProcessing,   \* client: useConversation state
    isResponding,   \* client: useConversation state
    turns,          \* client: one record per invocation of a turn driver
    started,        \* number of turn-driver invocations so far
    direct,         \* number of requests issued outside a turn driver
    hist,           \* history of the turns of each conversation
    audio,          \* client: what AudioRecorder has buffered
    currentTranscript, \* client: ConversationView's browser-recognition transcript
    recognition,    \* client: ConversationView holds a SpeechRecognition instance
    recorder,       \* client: the AudioRecorder of useConversation and the window's timers
    player          \* client: the AudioPlayer of useConversation and its play calls

vars == <<server, storageImpl, openaiKey, now, users, authTokens, sessions,
          personas, conversations, messages, verifyOk, lastOp, conversation,
          isListening, isProcessing, isResponding, turns, started, direct,
          hist, audio, currentTranscript, recognition,
                   recorder, player>>

authVars == <<users, authTokens, sessions, verifyOk, lastOp>>
storeVars == <<personas, conversations, messages>>
clientVars == <<conversation, isListening, isProcessing, isResponding, turns,
                started, direct, hist, audio, currentTranscript, recognition,
                   recorder, player>>
envVars == <<server, storageImpl, openaiKey>>

----------------------------------------------------------------------------
(* Bounds *)

MaxTime == 3
MaxTokens == 2
MaxTurns == 2
MaxDirect == 2
MaxConversations == 1

(* Program constants, in units of 30 minutes *)
TokenTtlMem == 1
TokenTtlDb == 2

Sessions == {1, 2}
Emails == {"a@b.com", "c@d.com"}
NoEmail == ""

----------------------------------------------------------------------------
(* Text *)

Blank == <<>>
Space == <<" ">>
Hello == <<"Hello">>
HelloSp == <<" ", "Hello", " ">>

\* String.prototype.trim
RECURSIVE TrimLeft(_)
TrimLeft(s) == IF s # <<>> /\ Head(s) = " " THEN TrimLeft(Tail(s)) ELSE s

RECURSIVE TrimRight(_)
TrimRight(s) ==
    IF s # <<>> /\ s[Len(s)] = " " THEN TrimRight(SubSeq(s, 1, Len(s) - 1)) ELSE s

trim(s) == TrimRight(TrimLeft(s))

\* JavaScript truthiness of a string
Truthy(s) == s # <<>>

\* String.prototype.toLowerCase, lexeme by lexeme
LowerLexeme(c) ==
    CASE c = "Hello" -> "hello"
      [] c = "Help" -> "help"
      [] OTHER -> c

toLowerCase(s) == [i \in 1..Len(s) |-> LowerLexeme(s[i])]

\* String.prototype.includes for a pattern given as a lexeme sequence
includes(s, pat) ==
    \E i \in 0..(Len(s) - Len(pat)) : SubSeq(s, i + 1, i + Len(pat)) = pat

----------------------------------------------------------------------------
(* Storage: users and auth tokens *)

NoUser == 0

getUser(id) == IF id \in 1..Len(users) THEN id ELSE NoUser

getUserByEmail(email) ==
    IF \E i \in 1..Len(users) : users[i].email = email
    THEN CHOOSE i \in 1..Len(users) :
            /\ users[i].email = email
            /\ \A j \in 1..(i - 1) : users[j].email # email
    ELSE NoUser

\* the users table after createUser({ email })
createUser(us, email) ==
    Append(us, [id |-> Len(us) + 1, email |-> email, emailVerified |-> FALSE])

\* the token row written by createAuthToken(email)
createAuthToken(email) ==
    [token |-> Len(authTokens) + 1, email |-> email,
     expires |-> now + (IF storageImpl = "mem" THEN TokenTtlMem ELSE TokenTtlDb),
     used |-> FALSE]

\* validateAuthToken: the result is [user, users, authTokens], user = NoUser
\* standing for undefined
MemValidateAuthToken_NoUsedCheck(token) ==
    IF \/ token \notin 1..Len(authTokens)
       \/ now > authTokens[token].expires
    THEN [user |-> NoUser, users |-> users, authTokens |-> authTokens]
    ELSE LET toks == [authTokens EXCEPT ![token].used = TRUE]
             found == getUserByEmail(authTokens[token].email)
             us == IF found = NoUser
                   THEN createUser(users, authTokens[token].email) ELSE users
             u == IF found = NoUser THEN Len(us) ELSE found
         IN [user |-> u,
             users |-> [us EXCEPT ![u].emailVerified = TRUE],
             authTokens |-> toks]

MemValidateAuthToken(token) ==
    IF \/ token \notin 1..Len(authTokens)
       \/ authTokens[token].used
       \/ now > authTokens[token].expires
    THEN [user |-> NoUser, users |-> users, authTokens |-> authTokens]
    ELSE LET toks == [authTokens EXCEPT ![token].used = TRUE]
             found == getUserByEmail(authTokens[token].email)
             us == IF found = NoUser
                   THEN createUser(users, authTokens[token].email) ELSE users
             u == IF found = NoUser THEN Len(us) ELSE found
         IN [user |-> u,
             users |-> [us EXCEPT ![u].emailVerified = TRUE],
             authTokens |-> toks]

DbValidateAuthToken(token) ==
    IF \/ token \notin 1..Len(authTokens)
       \/ authTokens[token].expires < now
    THEN [user |-> NoUser, users |-> users, authTokens |-> authTokens]
    ELSE LET found == getUserByEmail(authTokens[token].email)
         IN [user |-> found,
             users |-> IF found = NoUser THEN users
                       ELSE [users EXCEPT ![found].emailVerified = TRUE],
             authTokens |-> authTokens]

validateAuthToken(token) ==
    IF storageImpl = "mem" THEN MemValidateAuthToken(token)
    ELSE DbValidateAuthToken(token)

----------------------------------------------------------------------------
(* Auth routes *)

Sat(n) == IF n < 2 THEN n + 1 ELSE 2

\* what a request finds about its token before the handler runs
TokenClass(token) ==
    IF token \notin 1..Len(authTokens) THEN "unknown"
    ELSE IF verifyOk[token] > 0 THEN "used"
    ELSE IF now > authTokens[token].expires THEN "expired"
    ELSE "fresh"

\* the session middleware followed by requireAuth: the user of the request,
\* NoUser when the request is answered 401
requireAuth(s) ==
    IF sessions[s] = 0 THEN NoUser ELSE getUser(sessions[s])

Login_AlwaysCreate(s, email) ==
    /\ Len(authTokens) < MaxTokens
    /\ IF email = NoEmail
       THEN /\ lastOp' = [name |-> "login", status |-> 400, token |-> 0, class |-> "none"]
            /\ UNCHANGED <<users, authTokens, sessions, verifyOk>>
       ELSE LET us == createUser(users, email)
                u == Len(us)
            IN /\ users' = us
               /\ authTokens' = Append(authTokens, createAuthToken(email))
               /\ sessions' = [sessions EXCEPT ![s] = u]
               /\ verifyOk' = verifyOk
               /\ lastOp' = [name |-> "login", status |-> 200,
                             token |-> Len(authTokens) + 1, class |-> "none"]
    /\ UNCHANGED <<envVars, now, storeVars, clientVars>>

\* POST /api/auth/login
Login(s, email) ==
    /\ Len(authTokens) < MaxTokens
    /\ IF email = NoEmail
       THEN /\ lastOp' = [name |-> "login", status |-> 400, token |-> 0, class |-> "none"]
            /\ UNCHANGED <<users, authTokens, sessions, verifyOk>>
       ELSE LET found == getUserByEmail(email)
                us == IF found = NoUser THEN createUser(users, email) ELSE users
                u == IF found = NoUser THEN Len(us) ELSE found
            IN /\ users' = us
               /\ authTokens' = Append(authTokens, createAuthToken(email))
               /\ sessions' = [sessions EXCEPT ![s] = u]
               /\ verifyOk' = verifyOk
               /\ lastOp' = [name |-> "login", status |-> 200,
                             token |-> Len(authTokens) + 1, class |-> "none"]
    /\ UNCHANGED <<envVars, now, storeVars, clientVars>>

\* POST /api/auth/verify; token 0 stands for a missing token
Verify(s, token) ==
    /\ IF token = 0
       THEN /\ lastOp' = [name |-> "verify", status |-> 400, token |-> 0, class |-> "none"]
            /\ UNCHANGED <<users, authTokens, sessions, verifyOk>>
       ELSE LET r == validateAuthToken(token)
            IN IF r.user = NoUser
               THEN /\ lastOp' = [name |-> "verify", status |-> 401,
                                  token |-> token, class |-> TokenClass(token)]
                    /\ users' = r.users
                    /\ authTokens' = r.authTokens
                    /\ UNCHANGED <<sessions, verifyOk>>
               ELSE /\ lastOp' = [name |-> "verify", status |-> 200,
                                  token |-> token, class |-> TokenClass(token)]
                    /\ users' = r.users
                    /\ authTokens' = r.authTokens
                    /\ sessions' = [sessions EXCEPT ![s] = r.user]
                    /\ verifyOk' = [verifyOk EXCEPT ![token] = Sat(@)]
    /\ UNCHANGED <<envVars, now, storeVars, clientVars>>

\* the passage of time
Tick ==
    /\ now < MaxTime
    /\ now' = now + 1
    /\ UNCHANGED <<envVars, authVars, storeVars, clientVars>>

----------------------------------------------------------------------------
(* Storage: conversations and messages *)

ClientSession == 1

\* the conversations table after createConversation
createConversation(uid, personaId) ==
    Append(conversations,
           [id |-> Len(conversations) + 1, userId |-> uid, personaId |-> personaId,
            createdAt |-> now, updatedAt |-> now])

\* createMessage on the tables st: the tables afterwards.  The field turn
\* of a row is history: the turn-driver invocation that sent the request.
Store == [messages |-> messages, conversations |-> conversations]

MessageRow(st, convId, content, isUser, turn) ==
    [id |-> Len(st.messages) + 1, conversationId |-> convId, content |-> content,
     isUserMessage |-> isUser, createdAt |-> now, turn |-> turn]

MemCreateMessage(st, convId, content, isUser, turn) ==
    [messages |-> Append(st.messages, MessageRow(st, convId, content, isUser, turn)),
     conversations |-> st.conversations]

DbCreateMessage(st, convId, content, isUser, turn) ==
    [messages |-> Append(st.messages, MessageRow(st, convId, content, isUser, turn)),
     conversations |-> [st.conversations EXCEPT ![convId].updatedAt = now]]

createMessage(st, convId, content, isUser, turn) ==
    IF storageImpl = "mem" THEN MemCreateMessage(st, convId, content, isUser, turn)
    ELSE DbCreateMessage(st, convId, content, isUser, turn)

\* stable insertion sort by createdAt (Array.prototype.sort with aTime - bTime)
RECURSIVE InsertByCreatedAt(_, _)
InsertByCreatedAt(sorted, m) ==
    IF sorted = <<>> THEN <<m>>
    ELSE IF sorted[Len(sorted)].createdAt <= m.createdAt THEN Append(sorted, m)
    ELSE Append(InsertByCreatedAt(SubSeq(sorted, 1, Len(sorted) - 1), m),
                sorted[Len(sorted)])

RECURSIVE SortByCreatedAt(_)
SortByCreatedAt(ms) ==
    IF ms = <<>> THEN <<>>
    ELSE InsertByCreatedAt(SortByCreatedAt(SubSeq(ms, 1, Len(ms) - 1)), ms[Len(ms)])

getMessagesByConversationId(convId) ==
    SortByCreatedAt(SelectSeq(messages, LAMBDA m : m.conversationId = convId))

\* DatabaseStorage.getMessagesByConversationId: ORDER BY created_at alone, so
\* rows of equal createdAt come back in any order
DbMessageOrders(convId) ==
    LET rows == SelectSeq(messages, LAMBDA m : m.conversationId = convId)
        n == Len(rows)
    IN {[i \in 1..n |-> rows[p[i]]] :
           p \in {q \in [1..n -> 1..n] :
                    /\ \A i, j \in 1..n : q[i] = q[j] => i = j
                    /\ \A i \in 1..(n - 1) :
                          rows[q[i]].createdAt <= rows[q[i + 1]].createdAt}}

\* what storage.getMessagesByConversationId may return
ListResults(convId) ==
    IF storageImpl = "mem" THEN {getMessagesByConversationId(convId)}
    ELSE DbMessageOrders(convId)

----------------------------------------------------------------------------
(* Gateways *)

HiThere == <<"Hi", " ", "there!">>
Sorry == <<"I'm sorry, I couldn't process that. Could you try again?">>
Apology == <<"I'm having trouble connecting right now. Could you try again in a moment?">>
MockListen == <<"I'm here to listen. Would you like to tell me more about that?">>
MockTranscript == <<"Hello", " ", "Besty,", " ", "how", " ", "are", " ", "you",
                    " ", "doing", " ", "today?">>

moodResponses(mood) ==
    CASE mood = "cheerful" -> <<"Hey there! That's so interesting!">>
      [] mood = "chill" -> <<"Cool, I get what you're saying.">>
      [] mood = "sassy" -> <<"Well, well, well...">>
      [] mood = "romantic" -> <<"I feel so connected when you share things like this with me.">>
      [] mood = "realist" -> <<"I understand. Let's look at the facts here.">>
      [] OTHER -> MockListen

\* what one call of the chat-completion service yields
NoCall == [ok |-> TRUE, content |-> Blank]
CompletionResults ==
    {[ok |-> FALSE, content |-> Blank], [ok |-> TRUE, content |-> Blank],
     [ok |-> TRUE, content |-> HiThere]}

CompletionCalls == IF openaiKey THEN CompletionResults ELSE {NoCall}

\* getAIResponse(message, conversation, messages, personaMood = "chill");
\* mood "" stands for undefined
getAIResponse_EmptyOnError(message, mood, gw) ==
    IF openaiKey
    THEN IF gw.ok
         THEN [threw |-> FALSE,
               text |-> IF Truthy(gw.content) THEN gw.content ELSE Sorry]
         ELSE [threw |-> FALSE, text |-> Blank]
    ELSE [threw |-> FALSE, text |-> moodResponses(IF mood = "" THEN "chill" ELSE mood)]

getAIResponse(message, mood, gw) ==
    IF openaiKey
    THEN IF gw.ok
         THEN [threw |-> FALSE,
               text |-> IF Truthy(gw.content) THEN gw.content ELSE Sorry]
         ELSE [threw |-> FALSE, text |-> Apology]
    ELSE [threw |-> FALSE, text |-> moodResponses(IF mood = "" THEN "chill" ELSE mood)]

\* the keyword fallback of POST /api/chat
KeywordFallback(message) ==
    LET lowerMessage == toLowerCase(message)
    IN IF includes(lowerMessage, <<"hello">>) \/ includes(lowerMessage, <<"hi", " ">>)
       THEN <<"Hello! I'm your AI Besty.">>
       ELSE IF includes(lowerMessage, <<"how", " ", "are", " ", "you">>)
       THEN <<"I'm doing well, thanks for asking!">>
       ELSE IF includes(lowerMessage, <<"help">>)
       THEN <<"I'm here to help!">>
       ELSE IF includes(lowerMessage, <<"bad">>) \/ includes(lowerMessage, <<"sad">>)
       THEN <<"I'm sorry to hear that things aren't going well.">>
       ELSE <<"I'm listening! Tell me more about what's on your mind today.">>

\* the reply ConversationView.handleMessage composes itself
LocalReply(messageContent) ==
    LET lowerContent == toLowerCase(messageContent)
    IN IF includes(lowerContent, <<"hello">>) \/ includes(lowerContent, <<"hi", " ">>)
       THEN <<"Hello! I'm your AI Besty.">>
       ELSE IF includes(lowerContent, <<"how", " ", "are", " ", "you">>)
       THEN <<"I'm doing well, thanks for asking!">>
       ELSE IF includes(lowerContent, <<"help">>)
       THEN <<"I'm here to help!">>
       ELSE IF \/ includes(lowerContent, <<"sucks">>)
               \/ includes(lowerContent, <<"bad">>)
               \/ includes(lowerContent, <<"sad">>)
       THEN <<"I'm sorry to hear that things aren't going well. Sometimes talking about it can help.">>
       ELSE IF includes(lowerContent, <<"listen">>)
       THEN <<"Yes, I can hear you!">>
       ELSE <<"Hi! I'm your AI Besty.">>

\* one call of the speech-synthesis library: which version of
\* server/lib/elevenlabs.ts is linked, whether the service answers, whether
\* assets/fallback.mp3 exists
SynthCases ==
    [lib : {"throwing", "fallback"}, ok : BOOLEAN, asset : BOOLEAN]

textToSpeech(c) ==
    IF c.ok THEN [threw |-> FALSE, buffer |-> "audio"]
    ELSE IF c.lib = "throwing" THEN [threw |-> TRUE, buffer |-> "empty"]
    ELSE [threw |-> FALSE, buffer |-> IF c.asset THEN "asset" ELSE "empty"]

\* POST /api/text-to-speech: [status, audioUrl]
TtsRoutes_NoFallback(s, text, c) ==
    IF requireAuth(s) = NoUser THEN [status |-> 401, audioUrl |-> ""]
    ELSE IF ~Truthy(text) THEN [status |-> 400, audioUrl |-> ""]
    ELSE LET r == textToSpeech(c)
         IN IF r.threw \/ r.buffer = "empty"
            THEN [status |-> 500, audioUrl |-> ""]
            ELSE [status |-> 200, audioUrl |-> "/uploads/tts.mp3"]

TtsRoutes(s, text, c) ==
    IF requireAuth(s) = NoUser THEN [status |-> 401, audioUrl |-> ""]
    ELSE IF ~Truthy(text) THEN [status |-> 400, audioUrl |-> ""]
    ELSE LET r == textToSpeech(c)
         IN IF r.threw \/ r.buffer = "empty"
            THEN [status |-> 200, audioUrl |-> "/uploads/fallback.mp3"]
            ELSE [status |-> 200, audioUrl |-> "/uploads/tts.mp3"]

TtsIndex(s, text) ==
    IF requireAuth(s) = NoUser THEN [status |-> 401, audioUrl |-> ""]
    ELSE IF ~Truthy(text) THEN [status |-> 400, audioUrl |-> ""]
    ELSE [status |-> 200, audioUrl |-> "/audio/sample-response.mp3"]

----------------------------------------------------------------------------
(* Request validation shared by POST /api/messages and POST /api/chat:     *)
(* the status of the early return, 0 when the handler goes on              *)

RequestStatus(s, convId, content) ==
    IF requireAuth(s) = NoUser THEN 401
    ELSE IF convId = 0 \/ ~Truthy(content) THEN 400
    ELSE IF convId \notin 1..Len(conversations) THEN 404
    ELSE IF conversations[convId].userId # requireAuth(s) THEN 403
    ELSE 0

\* the mood of the persona a conversation refers to, "chill" by default
PersonaMoodOf(convId) ==
    LET pid == conversations[convId].personaId
    IN IF pid # 0 /\ pid \in 1..Len(personas) THEN personas[pid].mood ELSE "chill"

----------------------------------------------------------------------------
(* The client at rest *)

NoTurn ==
    [kind |-> "none", pc |-> "idle", text |-> Blank, conv |-> 0,
     capture |-> "text", userMsg |-> 0, aiMsg |-> 0, aiText |-> Blank,
     audioUrl |-> "", chatFailed |-> FALSE, ttsFailed |-> FALSE]

NoHist ==
    [overlap |-> FALSE,
     completed |-> [c \in 1..MaxConversations |-> 0],
     failed |-> [c \in 1..MaxConversations |-> FALSE]]

\* new AudioRecorder() in a mounted component: no MediaRecorder, no interval
\* handle, no timer scheduled in the window, no start awaiting the
\* microphone, no live transcript, no stream held, no stream open, none
\* acquired so far, no interim transcription request in flight
RecorderAtRest ==
    [mediaRecorder |-> "null", transcriptionInterval |-> 0, timers |-> {},
     intervals |-> 0, pending |-> 0, mounted |-> TRUE, liveTranscript |-> Blank,
     stream |-> 0, streams |-> {}, acquired |-> 0, inflight |-> <<>>]

\* new AudioPlayer(): one audio element without a source, nothing playing,
\* no play call made.  lib is the version of the class: the one whose play
\* rejects when the element cannot play, or the one that retries and then
\* plays a notification sound.  epoch counts the loads and pauses of the
\* element, each of which rejects the element's pending play promises.
PlayerLibs == {"throwing", "retrying"}

NoPlay ==
    [pc |-> "none", epoch |-> 0, first |-> "none", retry |-> "none", sound |-> "none",
     outcome |-> "none"]

PlayerAtRest ==
    [lib |-> "retrying", isPlaying |-> FALSE, src |-> 0, element |-> "idle",
     epoch |-> 0, sounds |-> 0, calls |-> <<>>]

HookAtRest ==
    /\ conversation = 0
    /\ isListening = FALSE
    /\ isProcessing = FALSE
    /\ isResponding = FALSE
    /\ turns = [t \in 1..MaxTurns |-> NoTurn]
    /\ started = 0
    /\ direct = 0
    /\ hist = NoHist
    /\ audio = "none"
    /\ currentTranscript = Blank
    /\ recognition = FALSE
    /\ recorder = RecorderAtRest

ClientAtRest == HookAtRest /\ player = PlayerAtRest

----------------------------------------------------------------------------
(* The handlers of POST /api/messages and POST /api/chat.  Each yields the  *)
(* response status, the tables afterwards, the id of the row the response   *)
(* names, the reply text, and whether a completion call was made and failed *)

Reject(status) ==
    [status |-> status, store |-> Store, id |-> 0, text |-> Blank, gwFailed |-> FALSE]

PostMessagesRoutes(s, convId, content, isUserMessage, turn) ==
    IF RequestStatus(s, convId, content) # 0
    THEN Reject(RequestStatus(s, convId, content))
    ELSE [status |-> 201,
          store |-> createMessage(Store, convId, content, isUserMessage, turn),
          id |-> Len(messages) + 1, text |-> Blank, gwFailed |-> FALSE]

PostMessagesIndex(s, convId, content, isUserMessage, turn, gw) ==
    IF RequestStatus(s, convId, content) # 0
    THEN Reject(RequestStatus(s, convId, content))
    ELSE LET st1 == createMessage(Store, convId, content, isUserMessage, turn)
             ai == getAIResponse(content, PersonaMoodOf(convId), gw)
         IN IF isUserMessage /\ ~ai.threw
            THEN [status |-> 201,
                  store |-> createMessage(st1, convId, ai.text, FALSE, turn),
                  id |-> Len(messages) + 1, text |-> ai.text,
                  gwFailed |-> openaiKey /\ ~gw.ok]
            ELSE [status |-> 201, store |-> st1, id |-> Len(messages) + 1,
                  text |-> Blank, gwFailed |-> isUserMessage /\ openaiKey /\ ~gw.ok]

PostMessages(s, convId, content, isUserMessage, turn, gw) ==
    IF server = "index"
    THEN PostMessagesIndex(s, convId, content, isUserMessage, turn, gw)
    ELSE PostMessagesRoutes(s, convId, content, isUserMessage, turn)

PostChat(s, convId, message, personaMood, turn, gw) ==
    IF RequestStatus(s, convId, message) # 0
    THEN Reject(RequestStatus(s, convId, message))
    ELSE LET ai == getAIResponse(message, personaMood, gw)
             aiResponseText == IF ai.threw THEN KeywordFallback(message) ELSE ai.text
         IN [status |-> 200,
             store |-> createMessage(Store, convId, aiResponseText, FALSE, turn),
             id |-> Len(messages) + 1, text |-> aiResponseText,
             gwFailed |-> openaiKey /\ ~gw.ok]

----------------------------------------------------------------------------
(* Turns.  turns[t] is the t-th invocation of stopListening,               *)
(* processMessage or handleMessage from its start to its end; pc names the *)
(* request it is waiting for.                                              *)

Texts == {Blank, Space, HelloSp}

Turns == 1..MaxTurns

voiceVars == <<isListening, audio, currentTranscript, recognition,
                   recorder, player>>

InProgress(t) == turns[t].pc # "idle"

Overlap == hist.overlap \/ \E u \in Turns : InProgress(u)

\* the record of a turn that has sent its first POST /api/messages
NewTurn(kind, text) ==
    [NoTurn EXCEPT !.kind = kind, !.pc = "postUser", !.text = text,
                   !.conv = conversation]

\* the history once a turn has ended
Ended(tr, ok) ==
    IF tr.conv \notin 1..MaxConversations THEN hist
    ELSE IF ok THEN [hist EXCEPT !.completed[tr.conv] = @ + 1]
    ELSE [hist EXCEPT !.failed[tr.conv] = TRUE]

\* the content a turn sends as its user message
UserContent(tr) == IF tr.kind = "handle" THEN trim(tr.text) ELSE tr.text

\* the catch block of a turn without the finally block after it
Fail_NoFinally(t) ==
    /\ turns' = [turns EXCEPT ![t] = NoTurn]
    /\ hist' = Ended(turns[t], FALSE)
    /\ UNCHANGED <<isProcessing, isResponding>>

\* the catch and finally blocks of a turn
Fail(t) ==
    /\ turns' = [turns EXCEPT ![t] = NoTurn]
    /\ hist' = Ended(turns[t], FALSE)
    /\ IF turns[t].kind = "process"
       THEN isProcessing' = FALSE /\ isResponding' = FALSE
       ELSE UNCHANGED <<isProcessing, isResponding>>

\* useConversation.processMessage up to its first fetch
processMessage_ChatFirst(text) ==
    /\ started < MaxTurns
    /\ conversation # 0
    /\ turns' = [turns EXCEPT ![started + 1] =
                    [NewTurn("process", text) EXCEPT !.pc = "chat"]]
    /\ isProcessing' = TRUE
    /\ started' = started + 1
    /\ hist' = [hist EXCEPT !.overlap = Overlap]
    /\ UNCHANGED <<envVars, now, authVars, storeVars, conversation, isResponding,
                   direct, voiceVars>>

processMessage(text) ==
    /\ started < MaxTurns
    /\ conversation # 0
    /\ turns' = [turns EXCEPT ![started + 1] = NewTurn("process", text)]
    /\ isProcessing' = TRUE
    /\ started' = started + 1
    /\ hist' = [hist EXCEPT !.overlap = Overlap]
    /\ UNCHANGED <<envVars, now, authVars, storeVars, conversation, isResponding,
                   direct, voiceVars>>

\* ConversationView.handleSendTextMessage and handleMessage up to its first
\* fetch
handleSendTextMessage(textMessage) ==
    /\ started < MaxTurns
    /\ Truthy(trim(textMessage))
    /\ ~isProcessing
    /\ ~isResponding
    /\ conversation # 0
    /\ turns' = [turns EXCEPT ![started + 1] = NewTurn("handle", textMessage)]
    /\ started' = started + 1
    /\ hist' = [hist EXCEPT !.overlap = Overlap]
    /\ UNCHANGED <<envVars, now, authVars, storeVars, conversation, isProcessing,
                   isResponding, direct, voiceVars>>

\* POST /api/conversations from useConversation.createConversation
CreateConversation ==
    /\ Len(conversations) < MaxConversations
    /\ requireAuth(ClientSession) # NoUser
    /\ conversations' = createConversation(requireAuth(ClientSession), personas[1].id)
    /\ conversation' = Len(conversations) + 1
    /\ UNCHANGED <<envVars, now, authVars, personas, messages, isProcessing,
                   isResponding, turns, started, direct, hist, voiceVars>>

\* POST /api/messages, the first one of a turn, and the code awaiting it
PostUserMessage(t, gw) ==
    /\ turns[t].pc = "postUser"
    /\ LET tr == turns[t]
           r == PostMessages(ClientSession, tr.conv, UserContent(tr), TRUE, t, gw)
           saved == [tr EXCEPT !.userMsg = r.id, !.chatFailed = r.gwFailed]
       IN IF r.status # 201
          THEN /\ Fail(t)
               /\ UNCHANGED <<messages, conversations>>
          ELSE /\ messages' = r.store.messages
               /\ conversations' = r.store.conversations
               /\ hist' = hist
               /\ IF tr.kind = "process"
                  THEN /\ turns' = [turns EXCEPT ![t] = [saved EXCEPT !.pc = "chat"]]
                       /\ isResponding' = TRUE
                       /\ UNCHANGED isProcessing
                  ELSE /\ turns' = [turns EXCEPT ![t] =
                                       [saved EXCEPT !.pc = "postAI",
                                                     !.aiText = LocalReply(tr.text)]]
                       /\ UNCHANGED <<isProcessing, isResponding>>
    /\ UNCHANGED <<envVars, now, authVars, personas, conversation, started, direct,
                   voiceVars>>

\* sendMessageToAI: POST /api/chat, and the code of processMessage awaiting it
Chat(t, gw) ==
    /\ turns[t].pc = "chat"
    /\ LET tr == turns[t]
           r == PostChat(ClientSession, tr.conv, tr.text, personas[1].mood, t, gw)
       IN IF r.status # 200
          THEN /\ Fail(t)
               /\ UNCHANGED <<messages, conversations>>
          ELSE /\ messages' = r.store.messages
               /\ conversations' = r.store.conversations
               /\ turns' = [turns EXCEPT ![t] =
                               [tr EXCEPT !.pc = "postAI", !.aiText = r.text,
                                          !.chatFailed = @ \/ r.gwFailed]]
               /\ UNCHANGED <<isProcessing, isResponding, hist>>
    /\ UNCHANGED <<envVars, now, authVars, personas, conversation, started, direct,
                   voiceVars>>

\* POST /api/messages with isUserMessage false, and the code awaiting it
PostAiMessage(t) ==
    /\ turns[t].pc = "postAI"
    /\ LET tr == turns[t]
           r == PostMessages(ClientSession, tr.conv, tr.aiText, FALSE, t, NoCall)
       IN IF r.status # 201
          THEN /\ Fail(t)
               /\ UNCHANGED <<messages, conversations>>
          ELSE /\ messages' = r.store.messages
               /\ conversations' = r.store.conversations
               /\ turns' = [turns EXCEPT ![t] =
                               [tr EXCEPT !.aiMsg = r.id,
                                          !.pc = IF tr.kind = "process"
                                                 THEN "tts" ELSE "list"]]
               /\ UNCHANGED <<isProcessing, isResponding, hist>>
    /\ UNCHANGED <<envVars, now, authVars, personas, conversation, started, direct,
                   voiceVars>>

\* POST /api/text-to-speech and the code of processMessage awaiting it
TextToSpeech(t, c) ==
    /\ turns[t].pc = "tts"
    /\ LET tr == turns[t]
           r == IF server = "routes" THEN TtsRoutes(ClientSession, tr.aiText, c)
                ELSE TtsIndex(ClientSession, tr.aiText)
       IN IF r.status # 200
          THEN Fail(t)
          ELSE /\ turns' = [turns EXCEPT ![t] =
                               [tr EXCEPT !.pc = "play", !.audioUrl = r.audioUrl,
                                          !.ttsFailed = (server = "routes" /\ ~c.ok)]]
               /\ UNCHANGED <<isProcessing, isResponding, hist>>
    /\ UNCHANGED <<envVars, now, authVars, storeVars, conversation, started, direct,
                   voiceVars>>

\* audioPlayerRef.current.play settles (the player of one version rejects
\* when the audio cannot be played) and the finally block runs
Play(t, played) ==
    /\ turns[t].pc = "play"
    /\ turns' = [turns EXCEPT ![t] = NoTurn]
    /\ isProcessing' = FALSE
    /\ isResponding' = FALSE
    /\ hist' = Ended(turns[t], played)
    /\ UNCHANGED <<envVars, now, authVars, storeVars, conversation, started, direct,
                   voiceVars>>

\* GET /api/conversations/:id/messages at the end of handleMessage
ListMessages(t) ==
    /\ turns[t].pc = "list"
    /\ turns' = [turns EXCEPT ![t] = NoTurn]
    /\ hist' = Ended(turns[t], TRUE)
    /\ UNCHANGED <<envVars, now, authVars, storeVars, conversation, isProcessing,
                   isResponding, started, direct, voiceVars>>

----------------------------------------------------------------------------
(* The turn specification: a signed-in user with a persona, the text paths *)

\* a@b.com has logged in and chosen a persona
SignedIn ==
    /\ server \in {"index", "routes"}
    /\ storageImpl \in {"mem", "db"}
    /\ openaiKey \in BOOLEAN
    /\ now = 0
    /\ users = <<[id |-> 1, email |-> "a@b.com", emailVerified |-> FALSE]>>
    /\ authTokens = <<[token |-> 1, email |-> "a@b.com",
                       expires |-> IF storageImpl = "mem" THEN TokenTtlMem
                                   ELSE TokenTtlDb,
                       used |-> FALSE]>>
    /\ sessions = [s \in Sessions |-> IF s = ClientSession THEN 1 ELSE 0]
    /\ personas = <<[id |-> 1, userId |-> 1, voice |-> "female", mood |-> "cheerful"]>>
    /\ conversations = <<>>
    /\ messages = <<>>
    /\ verifyOk = [k \in 1..(MaxTokens + 1) |-> 0]
    /\ lastOp = [name |-> "login", status |-> 200, token |-> 1, class |-> "none"]

Init == SignedIn /\ ClientAtRest

Next ==
    \/ CreateConversation
    \/ \E text \in Texts : processMessage(text)
    \/ \E text \in Texts : handleSendTextMessage(text)
    \/ \E t \in Turns, gw \in CompletionCalls : PostUserMessage(t, gw)
    \/ \E t \in Turns, gw \in CompletionCalls : Chat(t, gw)
    \/ \E t \in Turns : PostAiMessage(t)
    \/ \E t \in Turns, c \in SynthCases : TextToSpeech(t, c)
    \/ \E t \in Turns, played \in BOOLEAN : Play(t, played)
    \/ \E t \in Turns : ListMessages(t)

Spec == Init /\ [][Next]_vars

----------------------------------------------------------------------------
(* The API specification: requests sent to the endpoints one by one *)

\* a POST /api/messages
DirectPostMessage(convId, content, isUser, gw) ==
    /\ direct < MaxDirect
    /\ LET r == PostMessages(ClientSession, convId, content, isUser, 0, gw)
       IN /\ messages' = r.store.messages
          /\ conversations' = r.store.conversations
          /\ lastOp' = [name |-> "messages", status |-> r.status, token |-> 0,
                        class |-> "none"]
    /\ direct' = direct + 1
    /\ UNCHANGED <<envVars, now, users, authTokens, sessions, verifyOk, personas,
                   conversation, isProcessing, isResponding, turns, started, hist,
                   voiceVars>>

\* a POST /api/chat
DirectChat(convId, message, gw) ==
    /\ direct < MaxDirect
    /\ LET r == PostChat(ClientSession, convId, message, "", 0, gw)
       IN /\ messages' = r.store.messages
          /\ conversations' = r.store.conversations
          /\ lastOp' = [name |-> "chat", status |-> r.status, token |-> 0,
                        class |-> "none"]
    /\ direct' = direct + 1
    /\ UNCHANGED <<envVars, now, users, authTokens, sessions, verifyOk, personas,
                   conversation, isProcessing, isResponding, turns, started, hist,
                   voiceVars>>

NextApi ==
    \/ CreateConversation
    \/ \E c \in 0..MaxConversations, text \in Texts, isUser \in BOOLEAN,
          gw \in CompletionCalls : DirectPostMessage(c, text, isUser, gw)
    \/ \E c \in 0..MaxConversations, text \in Texts, gw \in CompletionCalls :
          DirectChat(c, text, gw)

SpecApi == Init /\ [][NextApi]_vars


----------------------------------------------------------------------------
(* The voice specification: one capture after another, each handed to      *)
(* POST /api/speech-to-text and then to processMessage                     *)

\* one transcription request: whether the encoded audio is the empty
\* string, whether the Deepgram request succeeds, whether the Whisper
\* request succeeds
SttCases == [empty : BOOLEAN, deepgram : BOOLEAN, whisper : BOOLEAN]

\* what a transcription service hears in a capture
Heard(capture) == IF capture = "speech" THEN Hello ELSE Blank

\* POST /api/speech-to-text of server/index.ts
SttIndex(s, capture, c) ==
    IF requireAuth(s) = NoUser THEN [status |-> 401, text |-> Blank]
    ELSE IF openaiKey /\ ~(capture = "none" /\ c.empty) /\ c.whisper
    THEN [status |-> 200, text |-> Heard(capture)]
    ELSE [status |-> 200, text |-> MockTranscript]

\* transcribeAudio of server/lib/deepgram.ts
transcribeAudio(capture, c) ==
    IF c.deepgram \/ c.whisper THEN [threw |-> FALSE, text |-> Heard(capture)]
    ELSE [threw |-> TRUE, text |-> Blank]

\* POST /api/speech-to-text of registerRoutes
SttRoutes(s, capture, c) ==
    IF requireAuth(s) = NoUser THEN [status |-> 401, text |-> Blank]
    ELSE IF capture = "none" /\ c.empty THEN [status |-> 400, text |-> Blank]
    ELSE IF transcribeAudio(capture, c).threw THEN [status |-> 500, text |-> Blank]
    ELSE [status |-> 200, text |-> transcribeAudio(capture, c).text]

\* useConversation.startListening; AudioRecorder.start throws when the
\* microphone is refused
startListening(granted) ==
    /\ conversation # 0
    /\ ~isListening
    /\ started < MaxTurns
    /\ isListening' = granted
    /\ audio' = "none"
    /\ UNCHANGED <<envVars, now, authVars, storeVars, conversation, isProcessing,
                   isResponding, turns, started, direct, hist, currentTranscript,
                   recognition,
                   recorder, player>>

\* mediaRecorder.ondataavailable with a chunk of size > 0
ondataavailable(chunk) ==
    /\ isListening
    /\ audio' = IF audio = "speech" THEN "speech" ELSE chunk
    /\ UNCHANGED <<envVars, now, authVars, storeVars, conversation, isListening,
                   isProcessing, isResponding, turns, started, direct, hist,
                   currentTranscript, recognition,
                   recorder, player>>

\* useConversation.stopListening up to the fetch of speechToText
stopListening ==
    /\ conversation # 0
    /\ isListening
    /\ started < MaxTurns
    /\ isListening' = FALSE
    /\ isProcessing' = TRUE
    /\ turns' = [turns EXCEPT ![started + 1] =
                    [NoTurn EXCEPT !.kind = "process", !.pc = "stt",
                                   !.conv = conversation, !.capture = audio]]
    /\ started' = started + 1
    /\ hist' = [hist EXCEPT !.overlap = Overlap]
    /\ UNCHANGED <<envVars, now, authVars, storeVars, conversation, isResponding,
                   direct, audio, currentTranscript, recognition,
                   recorder, player>>

\* POST /api/speech-to-text and the code of stopListening awaiting it, up to
\* the first fetch of processMessage
SpeechToText(t, c) ==
    /\ turns[t].pc = "stt"
    /\ LET tr == turns[t]
           r == IF server = "routes" THEN SttRoutes(ClientSession, tr.capture, c)
                ELSE SttIndex(ClientSession, tr.capture, c)
       IN IF r.status # 200 \/ ~Truthy(trim(r.text))
          THEN /\ turns' = [turns EXCEPT ![t] = NoTurn]
               /\ isProcessing' = FALSE
               /\ hist' = Ended(tr, FALSE)
          ELSE /\ turns' = [turns EXCEPT ![t] =
                               [tr EXCEPT !.pc = "postUser", !.text = r.text]]
               /\ isProcessing' = TRUE
               /\ hist' = hist
    /\ UNCHANGED <<envVars, now, authVars, storeVars, conversation, isResponding,
                   started, direct, voiceVars>>

NextVoice ==
    \/ CreateConversation
    \/ \E granted \in BOOLEAN : startListening(granted)
    \/ \E chunk \in {"silence", "speech"} : ondataavailable(chunk)
    \/ stopListening
    \/ \E t \in Turns, c \in SttCases : SpeechToText(t, c)
    \/ \E t \in Turns, gw \in CompletionCalls : PostUserMessage(t, gw)
    \/ \E t \in Turns, gw \in CompletionCalls : Chat(t, gw)
    \/ \E t \in Turns : PostAiMessage(t)
    \/ \E t \in Turns, c \in SynthCases : TextToSpeech(t, c)
    \/ \E t \in Turns, played \in BOOLEAN : Play(t, played)

SpecVoice == Init /\ [][NextVoice]_vars

----------------------------------------------------------------------------
(* The authentication specification: an empty store *)

InitAuth ==
    /\ server \in {"index", "routes"}
    /\ storageImpl \in {"mem", "db"}
    /\ openaiKey = FALSE
    /\ now = 0
    /\ users = <<>>
    /\ authTokens = <<>>
    /\ sessions = [s \in Sessions |-> 0]
    /\ personas = <<>>
    /\ conversations = <<>>
    /\ messages = <<>>
    /\ verifyOk = [k \in 1..(MaxTokens + 1) |-> 0]
    /\ lastOp = [name |-> "none", status |-> 0, token |-> 0, class |-> "none"]
    /\ ClientAtRest

NextAuth ==
    \/ \E s \in Sessions, email \in Emails \cup {NoEmail} : Login(s, email)
    \/ \E s \in Sessions, token \in 0..(MaxTokens + 1) : Verify(s, token)
    \/ Tick

SpecAuth == InitAuth /\ [][NextAuth]_vars

\* the storage wired by server/storage.ts
InitAuthMem == InitAuth /\ storageImpl = "mem"

SpecAuthMem == InitAuthMem /\ [][NextAuth]_vars

----------------------------------------------------------------------------
(* The gated endpoints as requests of any session *)

\* the values the persona columns are documented to hold
Voices == {"male", "female", "custom"}
Moods == {"cheerful", "chill", "sassy", "romantic", "realist", "custom"}

\* what a request body may carry for voice and mood; "" stands for a
\* missing field
VoiceInputs == {"", "male", "robot"}
MoodInputs == {"", "sassy", "grumpy"}

getPersonasByUserId(userId) == SelectSeq(personas, LAMBDA p : p.userId = userId)

createPersona(userId, voice, mood) ==
    Append(personas, [id |-> Len(personas) + 1, userId |-> userId,
                      voice |-> voice, mood |-> mood])

updatePersona(id, voice, mood) ==
    [personas EXCEPT ![id] = [@ EXCEPT !.voice = voice, !.mood = mood]]

getConversationsByUserId(userId) ==
    SelectSeq(conversations, LAMBDA c : c.userId = userId)

\* GET /api/auth/me: [status, user]
GetMe(s) ==
    IF requireAuth(s) = NoUser THEN [status |-> 401, user |-> NoUser]
    ELSE [status |-> 200, user |-> requireAuth(s)]

\* POST /api/personas: [status, personas afterwards, id of the row answered]
PostPersonas_AlwaysInsert(s, voice, mood) ==
    IF requireAuth(s) = NoUser THEN [status |-> 401, personas |-> personas, id |-> 0]
    ELSE IF voice = "" \/ mood = "" THEN [status |-> 400, personas |-> personas, id |-> 0]
    ELSE [status |-> 201, personas |-> createPersona(requireAuth(s), voice, mood),
          id |-> Len(personas) + 1]

PostPersonas(s, voice, mood) ==
    IF requireAuth(s) = NoUser THEN [status |-> 401, personas |-> personas, id |-> 0]
    ELSE IF voice = "" \/ mood = "" THEN [status |-> 400, personas |-> personas, id |-> 0]
    ELSE LET existingPersonas == getPersonasByUserId(requireAuth(s))
         IN IF Len(existingPersonas) > 0
            THEN [status |-> 200,
                  personas |-> updatePersona(existingPersonas[1].id, voice, mood),
                  id |-> existingPersonas[1].id]
            ELSE [status |-> 201,
                  personas |-> createPersona(requireAuth(s), voice, mood),
                  id |-> Len(personas) + 1]

\* GET /api/personas/current: [status, id of the persona answered]
GetCurrentPersona(s) ==
    IF requireAuth(s) = NoUser THEN [status |-> 401, id |-> 0]
    ELSE IF Len(getPersonasByUserId(requireAuth(s))) = 0 THEN [status |-> 404, id |-> 0]
    ELSE [status |-> 200, id |-> getPersonasByUserId(requireAuth(s))[1].id]

\* POST /api/conversations: [status, conversations afterwards]
PostConversations_NoGate(s, personaId) ==
    [status |-> 201, conversations |-> createConversation(requireAuth(s), personaId)]

\* POST /api/conversations; personaId 0 stands for none.  The column
\* persona_id references personas.id, so the database refuses an id no
\* persona has; MemStorage stores whatever it is given.
PostConversations(s, personaId) ==
    IF requireAuth(s) = NoUser THEN [status |-> 401, conversations |-> conversations]
    ELSE IF storageImpl = "db" /\ personaId # 0 /\ personaId \notin 1..Len(personas)
    THEN [status |-> 500, conversations |-> conversations]
    ELSE [status |-> 201,
          conversations |-> createConversation(requireAuth(s), personaId)]

\* GET /api/conversations/:id/messages: [status, messages answered]; id 0
\* stands for a path segment that is not a number, rows is what
\* storage.getMessagesByConversationId returns
GetConversationMessages_NoOwnerCheck(s, id, rows) ==
    IF requireAuth(s) = NoUser THEN [status |-> 401, messages |-> <<>>]
    ELSE IF id = 0 THEN [status |-> 400, messages |-> <<>>]
    ELSE IF id \notin 1..Len(conversations) THEN [status |-> 404, messages |-> <<>>]
    ELSE [status |-> 200, messages |-> rows]

GetConversationMessages(s, id, rows) ==
    IF requireAuth(s) = NoUser THEN [status |-> 401, messages |-> <<>>]
    ELSE IF id = 0 THEN [status |-> 400, messages |-> <<>>]
    ELSE IF id \notin 1..Len(conversations) THEN [status |-> 404, messages |-> <<>>]
    ELSE IF conversations[id].userId # requireAuth(s)
    THEN [status |-> 403, messages |-> <<>>]
    ELSE [status |-> 200, messages |-> rows]

\* POST /api/speech-to-text and POST /api/text-to-speech of the running server
Stt(s, capture, c) ==
    IF server = "index" THEN SttIndex(s, capture, c) ELSE SttRoutes(s, capture, c)

Tts(s, text, c) ==
    IF server = "index" THEN TtsIndex(s, text) ELSE TtsRoutes(s, text, c)

----------------------------------------------------------------------------
(* The gate specification: two browsers sending requests one by one *)

MaxRequests == 2

turnVars == <<conversation, isProcessing, isResponding, turns, started, hist,
              voiceVars>>

\* what lastOp records of a request of session s
Answer(s, name, status) ==
    [name |-> name, status |-> status, token |-> 0, class |-> "none", session |-> s]

\* POST /api/auth/logout
Logout_OnlyWhenSignedIn(s) ==
    /\ direct < MaxRequests
    /\ IF requireAuth(s) = NoUser
       THEN /\ sessions' = sessions
            /\ lastOp' = Answer(s, "logout", 401)
       ELSE /\ sessions' = [sessions EXCEPT ![s] = 0]
            /\ lastOp' = Answer(s, "logout", 200)
    /\ direct' = direct + 1
    /\ UNCHANGED <<envVars, now, users, authTokens, verifyOk, storeVars, turnVars>>

Logout(s) ==
    /\ direct < MaxRequests
    /\ sessions' = [sessions EXCEPT ![s] = 0]
    /\ lastOp' = Answer(s, "logout", 200)
    /\ direct' = direct + 1
    /\ UNCHANGED <<envVars, now, users, authTokens, verifyOk, storeVars, turnVars>>

Me(s) ==
    /\ direct < MaxRequests
    /\ lastOp' = Answer(s, "me", GetMe(s).status)
    /\ direct' = direct + 1
    /\ UNCHANGED <<envVars, now, users, authTokens, sessions, verifyOk, storeVars,
                   turnVars>>

UpsertPersona(s, voice, mood) ==
    /\ direct < MaxRequests
    /\ personas' = PostPersonas(s, voice, mood).personas
    /\ lastOp' = Answer(s, "personas", PostPersonas(s, voice, mood).status)
    /\ direct' = direct + 1
    /\ UNCHANGED <<envVars, now, users, authTokens, sessions, verifyOk,
                   conversations, messages, turnVars>>

CurrentPersona(s) ==
    /\ direct < MaxRequests
    /\ lastOp' = Answer(s, "current", GetCurrentPersona(s).status)
    /\ direct' = direct + 1
    /\ UNCHANGED <<envVars, now, users, authTokens, sessions, verifyOk, storeVars,
                   turnVars>>

NewConversation(s, personaId) ==
    /\ direct < MaxRequests
    /\ Len(conversations) < MaxConversations
    /\ conversations' = PostConversations(s, personaId).conversations
    /\ lastOp' = Answer(s, "conversations", PostConversations(s, personaId).status)
    /\ direct' = direct + 1
    /\ UNCHANGED <<envVars, now, users, authTokens, sessions, verifyOk, personas,
                   messages, turnVars>>

ConversationMessages(s, id) ==
    /\ direct < MaxRequests
    /\ \E rows \in ListResults(id) :
          lastOp' = Answer(s, "list", GetConversationMessages(s, id, rows).status)
    /\ direct' = direct + 1
    /\ UNCHANGED <<envVars, now, users, authTokens, sessions, verifyOk, storeVars,
                   turnVars>>

PostMessage(s, convId, content, isUser, gw) ==
    /\ direct < MaxRequests
    /\ LET r == PostMessages(s, convId, content, isUser, 0, gw)
       IN /\ messages' = r.store.messages
          /\ conversations' = r.store.conversations
          /\ lastOp' = Answer(s, "messages", r.status)
    /\ direct' = direct + 1
    /\ UNCHANGED <<envVars, now, users, authTokens, sessions, verifyOk, personas,
                   turnVars>>

ChatReply(s, convId, message, gw) ==
    /\ direct < MaxRequests
    /\ LET r == PostChat(s, convId, message, "", 0, gw)
       IN /\ messages' = r.store.messages
          /\ conversations' = r.store.conversations
          /\ lastOp' = Answer(s, "chat", r.status)
    /\ direct' = direct + 1
    /\ UNCHANGED <<envVars, now, users, authTokens, sessions, verifyOk, personas,
                   turnVars>>

Transcribe(s, capture, c) ==
    /\ direct < MaxRequests
    /\ lastOp' = Answer(s, "stt", Stt(s, capture, c).status)
    /\ direct' = direct + 1
    /\ UNCHANGED <<envVars, now, users, authTokens, sessions, verifyOk, storeVars,
                   turnVars>>

Synthesize(s, text, c) ==
    /\ direct < MaxRequests
    /\ lastOp' = Answer(s, "tts", Tts(s, text, c).status)
    /\ direct' = direct + 1
    /\ UNCHANGED <<envVars, now, users, authTokens, sessions, verifyOk, storeVars,
                   turnVars>>

\* the names Answer gives to the requests that pass through requireAuth
GateNames == {"me", "personas", "current", "conversations", "list", "messages",
              "chat", "stt", "tts"}

GateTexts == {Blank, HelloSp}
Captures == {"none", "speech"}

NextGate ==
    \/ \E s \in Sessions, email \in Emails \cup {NoEmail} : Login(s, email)
    \/ \E s \in Sessions, token \in 0..(MaxTokens + 1) : Verify(s, token)
    \/ \E s \in Sessions : Logout(s)
    \/ \E s \in Sessions : Me(s)
    \/ \E s \in Sessions, voice \in VoiceInputs, mood \in MoodInputs :
          UpsertPersona(s, voice, mood)
    \/ \E s \in Sessions : CurrentPersona(s)
    \/ \E s \in Sessions, personaId \in 0..1 : NewConversation(s, personaId)
    \/ \E s \in Sessions, id \in 0..(MaxConversations + 1) : ConversationMessages(s, id)
    \/ \E s \in Sessions, c \in 0..(MaxConversations + 1), text \in GateTexts,
          isUser \in BOOLEAN, gw \in CompletionCalls : PostMessage(s, c, text, isUser, gw)
    \/ \E s \in Sessions, c \in 0..(MaxConversations + 1), text \in GateTexts,
          gw \in CompletionCalls : ChatReply(s, c, text, gw)
    \/ \E s \in Sessions, capture \in Captures, c \in SttCases : Transcribe(s, capture, c)
    \/ \E s \in Sessions, text \in GateTexts, c \in SynthCases : Synthesize(s, text, c)

\* no completion service is configured
InitGate == Init /\ openaiKey = FALSE

SpecGate == InitGate /\ [][NextGate]_vars

----------------------------------------------------------------------------
(* The store specification: two signed-in users opening conversations,     *)
(* appending messages and reading them back as time passes                 *)

MaxOpen == 2
MaxMessages == 2

\* the ids of the conversations storage.getConversationsByUserId may return
\* first, {0} when the user has none: MemStorage answers in insertion order,
\* DatabaseStorage by updatedAt descending
FirstConversations(userId) ==
    LET own == getConversationsByUserId(userId)
    IN IF Len(own) = 0 THEN {0}
       ELSE IF storageImpl = "mem" THEN {own[1].id}
       ELSE {own[k].id : k \in {i \in 1..Len(own) :
                                  \A j \in 1..Len(own) :
                                      own[j].updatedAt <= own[i].updatedAt}}

\* GET /api/conversations/recent of server/index.ts:
\* [status, id of the conversation answered (0 for none), its messages]
GetRecentIndex(s, first, rows) ==
    IF requireAuth(s) = NoUser
    THEN [status |-> 401, conversation |-> 0, messages |-> <<>>]
    ELSE IF first = 0 THEN [status |-> 200, conversation |-> 0, messages |-> <<>>]
    ELSE [status |-> 200, conversation |-> first, messages |-> rows]

\* GET /api/conversations/:id of registerRoutes; id 0 stands for a path
\* segment that is not a number
GetConversation(s, id) ==
    IF requireAuth(s) = NoUser
    THEN [status |-> 401, conversation |-> 0, messages |-> <<>>]
    ELSE IF id = 0 THEN [status |-> 400, conversation |-> 0, messages |-> <<>>]
    ELSE IF id \notin 1..Len(conversations)
    THEN [status |-> 404, conversation |-> 0, messages |-> <<>>]
    ELSE IF conversations[id].userId # requireAuth(s)
    THEN [status |-> 403, conversation |-> 0, messages |-> <<>>]
    ELSE [status |-> 200, conversation |-> id, messages |-> <<>>]

\* a GET of the path /api/conversations/recent: registerRoutes registers
\* /api/conversations/:id before /api/conversations/recent, so the request
\* is answered by the former with the segment "recent" as id
GetRecent(s, first, rows) ==
    IF server = "index" THEN GetRecentIndex(s, first, rows)
    ELSE GetConversation(s, 0)

OpenConversation(s, personaId) ==
    /\ Len(conversations) < MaxOpen
    /\ conversations' = PostConversations(s, personaId).conversations
    /\ lastOp' = Answer(s, "conversations", PostConversations(s, personaId).status)
    /\ UNCHANGED <<envVars, now, users, authTokens, sessions, verifyOk, personas,
                   messages, clientVars>>

AppendMessage(s, convId, content, isUser) ==
    /\ Len(messages) < MaxMessages
    /\ LET r == PostMessages(s, convId, content, isUser, 0, NoCall)
       IN /\ messages' = r.store.messages
          /\ conversations' = r.store.conversations
          /\ lastOp' = Answer(s, "messages", r.status)
    /\ UNCHANGED <<envVars, now, users, authTokens, sessions, verifyOk, personas,
                   clientVars>>

Recent(s) ==
    /\ \E first \in FirstConversations(requireAuth(s)) :
          \E rows \in ListResults(first) :
             lastOp' = Answer(s, "recent", GetRecent(s, first, rows).status)
    /\ UNCHANGED <<envVars, now, users, authTokens, sessions, verifyOk, storeVars,
                   clientVars>>

List(s, id) ==
    /\ \E rows \in ListResults(id) :
          lastOp' = Answer(s, "list", GetConversationMessages(s, id, rows).status)
    /\ UNCHANGED <<envVars, now, users, authTokens, sessions, verifyOk, storeVars,
                   clientVars>>

\* the state after a@b.com and c@d.com have logged in, each in a browser
InitStore ==
    /\ server \in {"index", "routes"}
    /\ storageImpl \in {"mem", "db"}
    /\ openaiKey = FALSE
    /\ now = 0
    /\ users = <<[id |-> 1, email |-> "a@b.com", emailVerified |-> FALSE],
                 [id |-> 2, email |-> "c@d.com", emailVerified |-> FALSE]>>
    /\ authTokens = [k \in 1..2 |->
                       [token |-> k, email |-> users[k].email,
                        expires |-> IF storageImpl = "mem" THEN TokenTtlMem
                                    ELSE TokenTtlDb,
                        used |-> FALSE]]
    /\ sessions = [s \in Sessions |-> s]
    /\ personas = <<>>
    /\ conversations = <<>>
    /\ messages = <<>>
    /\ verifyOk = [k \in 1..(MaxTokens + 1) |-> 0]
    /\ lastOp = [name |-> "login", status |-> 200, token |-> 2, class |-> "none"]
    /\ ClientAtRest

NextStore ==
    \/ \E s \in Sessions : OpenConversation(s, 0)
    \/ \E s \in Sessions, c \in 1..MaxOpen, text \in GateTexts, isUser \in BOOLEAN :
          AppendMessage(s, c, text, isUser)
    \/ \E s \in Sessions : Recent(s)
    \/ \E s \in Sessions, id \in 0..MaxOpen : List(s, id)
    \/ Tick

SpecStore == InitStore /\ [][NextStore]_vars

----------------------------------------------------------------------------
(* The recorder specification: the microphone button, the AudioRecorder    *)
(* behind it and the timers it schedules                                   *)

MaxStarts == 2

\* useConversation.toggleListening.  With isListening false it calls
\* startListening, whose AudioRecorder.start awaits the microphone; with
\* isListening true it calls stopListening, taken here up to the end of
\* AudioRecorder.stop
toggleListening ==
    /\ recorder.mounted
    /\ conversation # 0
    /\ IF isListening
       THEN /\ isListening' = FALSE
            /\ isProcessing' = TRUE
            /\ recorder' = IF recorder.mediaRecorder = "null" THEN recorder
                           ELSE [recorder EXCEPT
                                    !.timers = @ \ {recorder.transcriptionInterval},
                                    !.transcriptionInterval = 0,
                                    !.mediaRecorder = "inactive",
                                    !.streams = @ \ {recorder.stream},
                                    !.stream = 0]
       ELSE /\ recorder.acquired + recorder.pending < MaxStarts
            /\ recorder' = [recorder EXCEPT !.pending = @ + 1]
            /\ UNCHANGED <<isListening, isProcessing>>
    /\ UNCHANGED <<envVars, now, authVars, storeVars, conversation, isResponding,
                   turns, started, direct, hist, audio, currentTranscript,
                   recognition, player>>

\* what a start meets: the microphone is refused, the microphone is
\* granted and the MediaRecorder cannot be created or started, or both work
StartOutcomes == {"denied", "unsupported", "granted"}

\* navigator.mediaDevices.getUserMedia settles and AudioRecorder.start runs
\* to its end, then startListening
getUserMedia(outcome) ==
    /\ recorder.pending > 0
    /\ IF outcome = "granted"
       THEN /\ recorder' = [recorder EXCEPT
                               !.pending = @ - 1,
                               !.stream = recorder.acquired + 1,
                               !.streams = @ \cup {recorder.acquired + 1},
                               !.acquired = @ + 1,
                               !.mediaRecorder = "recording",
                               !.transcriptionInterval = recorder.intervals + 1,
                               !.timers = @ \cup {recorder.intervals + 1},
                               !.intervals = @ + 1,
                               !.liveTranscript = Blank]
            /\ audio' = "none"
            /\ isListening' = IF recorder.mounted THEN TRUE ELSE isListening
       ELSE IF outcome = "unsupported"
       THEN /\ recorder' = [recorder EXCEPT
                               !.pending = @ - 1,
                               !.stream = recorder.acquired + 1,
                               !.streams = @ \cup {recorder.acquired + 1},
                               !.acquired = @ + 1]
            /\ UNCHANGED <<audio, isListening>>
       ELSE /\ recorder' = [recorder EXCEPT !.pending = @ - 1]
            /\ UNCHANGED <<audio, isListening>>
    /\ UNCHANGED <<envVars, now, authVars, storeVars, conversation, isProcessing,
                   isResponding, turns, started, direct, hist, currentTranscript,
                   recognition, player>>

\* the callback of window.setInterval of handle h
IntervalFires(h, c) ==
    /\ h \in recorder.timers
    /\ LET r == Stt(ClientSession, audio, c)
       IN recorder' = IF recorder.mounted /\ audio # "none" /\ r.status = 200
                         /\ Truthy(r.text)
                      THEN [recorder EXCEPT !.liveTranscript = r.text]
                      ELSE recorder
    /\ UNCHANGED <<envVars, now, authVars, storeVars, conversation, isListening,
                   isProcessing, isResponding, turns, started, direct, hist, audio,
                   currentTranscript, recognition, player>>

\* React unmounts the component that called useConversation; the hook
\* registers no cleanup
Unmount ==
    /\ recorder.mounted
    /\ recorder' = [recorder EXCEPT !.mounted = FALSE]
    /\ UNCHANGED <<envVars, now, authVars, storeVars, conversation, isListening,
                   isProcessing, isResponding, turns, started, direct, hist, audio,
                   currentTranscript, recognition, player>>

NextRecorder ==
    \/ CreateConversation
    \/ toggleListening
    \/ \E outcome \in StartOutcomes : getUserMedia(outcome)
    \/ \E chunk \in {"silence", "speech"} : ondataavailable(chunk)
    \/ \E h \in 1..MaxStarts, c \in SttCases : IntervalFires(h, c)
    \/ Unmount

SpecRecorder == Init /\ [][NextRecorder]_vars

----------------------------------------------------------------------------
(* The player specification: play calls on one AudioPlayer, each running   *)
(* from await to await, and the events of its audio elements               *)

MaxPlays == 2

\* AudioPlayer.stop: the player afterwards
StopPlayer(p) ==
    IF p.isPlaying
    THEN [p EXCEPT !.isPlaying = FALSE, !.element = "idle", !.epoch = @ + 1]
    ELSE p

\* AudioPlayer.play up to its first await, the call of stop
play ==
    /\ Len(player.calls) < MaxPlays
    /\ player' = [StopPlayer(player) EXCEPT
                     !.calls = Append(@, [NoPlay EXCEPT !.pc = "stopped"])]
    /\ UNCHANGED <<envVars, now, authVars, storeVars, conversation, isListening,
                   isProcessing, isResponding, turns, started, direct, hist, audio,
                   currentTranscript, recognition, recorder>>

\* play after stop: the element is given the new source, which ends what
\* it was loading or playing, and audioElement.play() is called
SetSource(k) ==
    /\ k \in 1..Len(player.calls)
    /\ player.calls[k].pc = "stopped"
    /\ player' = [player EXCEPT
                     !.src = k, !.element = "loading", !.epoch = @ + 1,
                     !.calls[k] = [@ EXCEPT !.pc = "first",
                                            !.epoch = player.epoch + 1]]
    /\ UNCHANGED <<envVars, now, authVars, storeVars, conversation, isListening,
                   isProcessing, isResponding, turns, started, direct, hist, audio,
                   currentTranscript, recognition, recorder>>

\* the element ends loading: it starts playing, or fires the event error
ElementSettles(ok) ==
    /\ player.element = "loading"
    /\ player' = IF ok THEN [player EXCEPT !.element = "playing"]
                 ELSE [player EXCEPT !.element = "failed", !.isPlaying = FALSE]
    /\ UNCHANGED <<envVars, now, authVars, storeVars, conversation, isListening,
                   isProcessing, isResponding, turns, started, direct, hist, audio,
                   currentTranscript, recognition, recorder>>

\* whether the promise of the audioElement.play() that call k awaits has
\* settled, and how: it is rejected when the element was loaded anew or
\* paused since, or could not play; it is fulfilled when the element plays
Rejected(k) ==
    \/ player.calls[k].epoch # player.epoch
    \/ player.element = "failed"

Fulfilled(k) ==
    /\ player.calls[k].epoch = player.epoch
    /\ player.element = "playing"

\* the code of play after the first await of audioElement.play()
PlaySettles_NoRetry(k) ==
    /\ k \in 1..Len(player.calls)
    /\ player.calls[k].pc = "first"
    /\ Rejected(k) \/ Fulfilled(k)
    /\ IF Fulfilled(k)
       THEN player' = [player EXCEPT
                          !.isPlaying = TRUE,
                          !.calls[k] = [@ EXCEPT !.pc = "done", !.first = "ok",
                                                 !.outcome = "resolved"]]
       ELSE player' = [player EXCEPT
                          !.calls[k] = [@ EXCEPT !.pc = "sound", !.first = "failed"]]
    /\ UNCHANGED <<envVars, now, authVars, storeVars, conversation, isListening,
                   isProcessing, isResponding, turns, started, direct, hist, audio,
                   currentTranscript, recognition, recorder>>

PlaySettles(k) ==
    /\ k \in 1..Len(player.calls)
    /\ player.calls[k].pc = "first"
    /\ Rejected(k) \/ Fulfilled(k)
    /\ IF Fulfilled(k)
       THEN player' = [player EXCEPT
                          !.isPlaying = TRUE,
                          !.calls[k] = [@ EXCEPT !.pc = "done", !.first = "ok",
                                                 !.outcome = "resolved"]]
       ELSE IF player.lib = "throwing"
       THEN player' = [player EXCEPT
                          !.calls[k] = [@ EXCEPT !.pc = "done", !.first = "failed",
                                                 !.outcome = "rejected"]]
       ELSE player' = [player EXCEPT
                          !.calls[k] = [@ EXCEPT !.pc = "wait", !.first = "failed"]]
    /\ UNCHANGED <<envVars, now, authVars, storeVars, conversation, isListening,
                   isProcessing, isResponding, turns, started, direct, hist, audio,
                   currentTranscript, recognition, recorder>>

\* the 500 ms timer of the retry fires and audioElement.play() is called
\* again, on whatever source the element has by then: an element that is
\* neither loading nor playing starts to load
RetryTimer(k) ==
    /\ k \in 1..Len(player.calls)
    /\ player.calls[k].pc = "wait"
    /\ player' = [player EXCEPT
                     !.element = IF @ \in {"idle", "failed"} THEN "loading" ELSE @,
                     !.calls[k] = [@ EXCEPT !.pc = "retry", !.epoch = player.epoch]]
    /\ UNCHANGED <<envVars, now, authVars, storeVars, conversation, isListening,
                   isProcessing, isResponding, turns, started, direct, hist, audio,
                   currentTranscript, recognition, recorder>>

\* the code of play after the second await of audioElement.play(); when
\* the promise is rejected the outer catch creates the notification element
\* and calls its play
RetrySettles(k) ==
    /\ k \in 1..Len(player.calls)
    /\ player.calls[k].pc = "retry"
    /\ Rejected(k) \/ Fulfilled(k)
    /\ IF Fulfilled(k)
       THEN player' = [player EXCEPT
                          !.isPlaying = TRUE,
                          !.calls[k] = [@ EXCEPT !.pc = "done", !.retry = "ok",
                                                 !.outcome = "resolved"]]
       ELSE player' = [player EXCEPT
                          !.calls[k] = [@ EXCEPT !.pc = "sound", !.retry = "failed"]]
    /\ UNCHANGED <<envVars, now, authVars, storeVars, conversation, isListening,
                   isProcessing, isResponding, turns, started, direct, hist, audio,
                   currentTranscript, recognition, recorder>>

\* the promise of fallbackAudio.play() settles and play returns
SoundSettles(k, ok) ==
    /\ k \in 1..Len(player.calls)
    /\ player.calls[k].pc = "sound"
    /\ player' = [player EXCEPT
                     !.sounds = IF ok THEN @ + 1 ELSE @,
                     !.calls[k] = [@ EXCEPT !.pc = "done",
                                            !.sound = IF ok THEN "ok" ELSE "failed",
                                            !.outcome = "resolved"]]
    /\ UNCHANGED <<envVars, now, authVars, storeVars, conversation, isListening,
                   isProcessing, isResponding, turns, started, direct, hist, audio,
                   currentTranscript, recognition, recorder>>

\* the event ended of the player's element, once the code awaiting the
\* element has run
ended ==
    /\ player.element = "playing"
    /\ \A k \in 1..Len(player.calls) :
          player.calls[k].pc \in {"first", "retry"} => ~Fulfilled(k)
    /\ player' = [player EXCEPT !.element = "idle", !.isPlaying = FALSE]
    /\ UNCHANGED <<envVars, now, authVars, storeVars, conversation, isListening,
                   isProcessing, isResponding, turns, started, direct, hist, audio,
                   currentTranscript, recognition, recorder>>

\* a notification element finishes its sound
SoundEnded ==
    /\ player.sounds > 0
    /\ player' = [player EXCEPT !.sounds = @ - 1]
    /\ UNCHANGED <<envVars, now, authVars, storeVars, conversation, isListening,
                   isProcessing, isResponding, turns, started, direct, hist, audio,
                   currentTranscript, recognition, recorder>>

InitPlayer ==
    /\ SignedIn
    /\ HookAtRest
    /\ player \in {[PlayerAtRest EXCEPT !.lib = l] : l \in PlayerLibs}

NextPlayer ==
    \/ play
    \/ \E k \in 1..MaxPlays : SetSource(k)
    \/ \E ok \in BOOLEAN : ElementSettles(ok)
    \/ \E k \in 1..MaxPlays : PlaySettles(k)
    \/ \E k \in 1..MaxPlays : RetryTimer(k)
    \/ \E k \in 1..MaxPlays : RetrySettles(k)
    \/ \E k \in 1..MaxPlays, ok \in BOOLEAN : SoundSettles(k, ok)
    \/ ended
    \/ SoundEnded

SpecPlayer == InitPlayer /\ [][NextPlayer]_vars

\* the player of the version that retries
InitPlayerRetrying == InitPlayer /\ player.lib = "retrying"

SpecPlayerRetrying == InitPlayerRetrying /\ [][NextPlayer]_vars

----------------------------------------------------------------------------
(* The reply of the companion: the mood, the prompt, the failed completion *)

\* utils.getMoodPrompt: the system instruction of a mood, the one of "chill"
\* for a mood without one
getMoodPrompt(mood) ==
    CASE mood = "cheerful" -> <<"You're an AI friend named Besty who's cheerful">>
      [] mood = "sassy" -> <<"You're an AI friend named Besty who's witty">>
      [] mood = "romantic" -> <<"You're an AI friend named Besty who's warm">>
      [] mood = "realist" -> <<"You're an AI friend named Besty who's practical">>
      [] OTHER -> <<"You're an AI friend named Besty who's relaxed">>

\* the messages array getAIResponse sends; personaMood "" stands for
\* undefined, which the parameter default turns into "chill"
promptMessages(message, rows, personaMood) ==
    <<[role |-> "system",
       content |-> getMoodPrompt(IF personaMood = "" THEN "chill" ELSE personaMood)]>>
    \o [i \in 1..Len(rows) |->
          [role |-> IF rows[i].isUserMessage THEN "user" ELSE "assistant",
           content |-> rows[i].content]]
    \o <<[role |-> "user", content |-> message]>>

\* handleChatRequest: the mood it passes on
effectiveMood(convId, personaMood) ==
    IF personaMood # "" THEN personaMood ELSE PersonaMoodOf(convId)

\* handleChatRequest: the answer, the tables and the reply text
handleChatRequest(s, convId, message, personaMood, gw) ==
    IF RequestStatus(s, convId, message) # 0
    THEN Reject(RequestStatus(s, convId, message))
    ELSE LET ai == getAIResponse(message, effectiveMood(convId, personaMood), gw)
         IN IF ai.threw
            THEN [Reject(500) EXCEPT !.gwFailed = TRUE]
            ELSE [status |-> 200,
                  store |-> createMessage(Store, convId, ai.text, FALSE, 0),
                  id |-> Len(messages) + 1, text |-> ai.text,
                  gwFailed |-> openaiKey /\ ~gw.ok]

\* what a reply request leaves in lastOp: the request, the answer, the rows
\* of the table before it, and the prompt sent (none without a credential)
Replied(name, convId, message, personaMood, r, prompt) ==
    [name |-> name, status |-> r.status, token |-> 0, class |-> "none",
     conv |-> convId, message |-> message, override |-> personaMood,
     text |-> r.text, failed |-> r.gwFailed, before |-> Len(messages),
     prompt |-> IF r.text # Blank /\ openaiKey THEN prompt ELSE <<>>]

\* POST /api/chat of registerRoutes
ReplyChat(convId, message, personaMood, gw) ==
    /\ direct < MaxDirect
    /\ \E rows \in ListResults(convId) :
          LET r == PostChat(ClientSession, convId, message, personaMood, 0, gw)
          IN /\ messages' = r.store.messages
             /\ conversations' = r.store.conversations
             /\ lastOp' = Replied("chat", convId, message, personaMood, r,
                                  promptMessages(message, rows, personaMood))
    /\ direct' = direct + 1
    /\ UNCHANGED <<envVars, now, users, authTokens, sessions, verifyOk, personas,
                   turnVars>>

\* handleChatRequest
ReplyHandleChat(convId, message, personaMood, gw) ==
    /\ direct < MaxDirect
    /\ \E rows \in ListResults(convId) :
          LET r == handleChatRequest(ClientSession, convId, message, personaMood, gw)
          IN /\ messages' = r.store.messages
             /\ conversations' = r.store.conversations
             /\ lastOp' = Replied("handleChat", convId, message, personaMood, r,
                                  promptMessages(message, rows,
                                                 effectiveMood(convId, personaMood)))
    /\ direct' = direct + 1
    /\ UNCHANGED <<envVars, now, users, authTokens, sessions, verifyOk, personas,
                   turnVars>>

\* the list storage.getMessagesByConversationId returns once row m, created
\* now, is in the table after the rows listed as rows: MemStorage sorts
\* stably, the database puts m anywhere among the rows of its createdAt
ListedWith(rows, m) ==
    IF storageImpl = "mem" THEN {Append(rows, m)}
    ELSE {SubSeq(rows, 1, i) \o <<m>> \o SubSeq(rows, i + 1, Len(rows)) :
            i \in {j \in 0..Len(rows) :
                     \A k \in (j + 1)..Len(rows) : rows[k].createdAt = m.createdAt}}

\* POST /api/messages of server/index.ts with a user message: the row is
\* stored, the table listed, the reply generated and stored
ReplyMessages(convId, content, gw) ==
    /\ server = "index"
    /\ direct < MaxDirect
    /\ \E rows \in ListResults(convId) :
          LET r == PostMessages(ClientSession, convId, content, TRUE, 0, gw)
          IN /\ messages' = r.store.messages
             /\ conversations' = r.store.conversations
             /\ \E allMessages \in
                      ListedWith(rows, MessageRow(Store, convId, content, TRUE, 0)) :
                   lastOp' = Replied("messages", convId, content, "", r,
                                     promptMessages(content, allMessages,
                                                    PersonaMoodOf(convId)))
    /\ direct' = direct + 1
    /\ UNCHANGED <<envVars, now, users, authTokens, sessions, verifyOk, personas,
                   turnVars>>

\* the persona ids a new conversation may name: none, the user's persona, a
\* persona that does not exist
PersonaRefs == {0, 1, 2}

ReplyMoods == {"", "sassy"}

NextReply ==
    \/ \E p \in PersonaRefs : OpenConversation(ClientSession, p)
    \/ \E c \in 0..MaxOpen, text \in GateTexts, mood \in ReplyMoods,
          gw \in CompletionCalls : ReplyChat(c, text, mood, gw)
    \/ \E c \in 0..MaxOpen, text \in GateTexts, mood \in ReplyMoods,
          gw \in CompletionCalls : ReplyHandleChat(c, text, mood, gw)
    \/ \E c \in 0..MaxOpen, text \in GateTexts, gw \in CompletionCalls :
          ReplyMessages(c, text, gw)
    \/ Tick

SpecReply == Init /\ [][NextReply]_vars

----------------------------------------------------------------------------
(* The keyword replies *)

\* what a user may say, phrase by phrase
Phrases ==
    {<<"Hello">>, <<"hi", " ">>, <<"how", " ", "are", " ", "you">>, <<"Help">>,
     <<"bad">>, <<"sad">>, <<"sucks">>, <<"listen">>, <<"ok">>}

Utterances == Phrases \cup {a \o <<" ">> \o b : a, b \in Phrases}

\* the catch of POST /api/chat and ConversationView.handleMessage applied to
\* a message
Fallback(message) ==
    /\ lastOp' = [name |-> "fallback", status |-> 0, token |-> 0, class |-> "none",
                  message |-> message, server |-> KeywordFallback(message),
                  client |-> LocalReply(message)]
    /\ UNCHANGED <<envVars, now, users, authTokens, sessions, verifyOk, storeVars,
                   clientVars>>

NextFallback == \E message \in Utterances : Fallback(message)

SpecFallback == Init /\ [][NextFallback]_vars

----------------------------------------------------------------------------
(* createMessage, statement by statement *)

\* the statements of storage.createMessage that write a table, in the order
\* of the code: DatabaseStorage awaits the insert, then the update of the
\* parent; MemStorage only sets the row
createMessageSteps_BumpFirst ==
    IF storageImpl = "mem" THEN <<"insert">> ELSE <<"bump", "insert">>

createMessageSteps ==
    IF storageImpl = "mem" THEN <<"insert">> ELSE <<"insert", "bump">>

\* a handler calls storage.createMessage for a conversation it has found;
\* lastOp holds the call: the statement it is at, the id its row gets,
\* whether it has written updatedAt, whether the process died in it
CallCreateMessage(convId, content, isUser) ==
    /\ Len(messages) < MaxMessages
    /\ convId \in 1..Len(conversations)
    /\ lastOp.name = "createMessage" => (lastOp.crashed \/ lastOp.pc > Len(createMessageSteps))
    /\ lastOp' = [name |-> "createMessage", status |-> 0, token |-> 0,
                  class |-> "none", pc |-> 1, conv |-> convId, content |-> content,
                  isUser |-> isUser, id |-> Len(messages) + 1, bumped |-> FALSE,
                  crashed |-> FALSE]
    /\ UNCHANGED <<envVars, now, users, authTokens, sessions, verifyOk, storeVars,
                   clientVars>>

\* the next statement of the call in flight
CreateMessageStep ==
    /\ lastOp.name = "createMessage"
    /\ ~lastOp.crashed
    /\ lastOp.pc <= Len(createMessageSteps)
    /\ IF createMessageSteps[lastOp.pc] = "insert"
       THEN /\ messages' = MemCreateMessage(Store, lastOp.conv, lastOp.content,
                                            lastOp.isUser, 0).messages
            /\ lastOp' = [lastOp EXCEPT !.pc = @ + 1]
            /\ UNCHANGED conversations
       ELSE /\ conversations' = [conversations EXCEPT ![lastOp.conv].updatedAt = now]
            /\ lastOp' = [lastOp EXCEPT !.pc = @ + 1, !.bumped = TRUE]
            /\ UNCHANGED messages
    /\ UNCHANGED <<envVars, now, users, authTokens, sessions, verifyOk, personas,
                   clientVars>>

\* the process dies while the call is in flight; the tables of the database
\* stay as they are
Crash ==
    /\ storageImpl = "db"
    /\ lastOp.name = "createMessage"
    /\ ~lastOp.crashed
    /\ lastOp.pc <= Len(createMessageSteps)
    /\ lastOp' = [lastOp EXCEPT !.crashed = TRUE]
    /\ UNCHANGED <<envVars, now, users, authTokens, sessions, verifyOk, storeVars,
                   clientVars>>

NextAppend ==
    \/ OpenConversation(ClientSession, 0)
    \/ \E c \in 1..MaxOpen, text \in GateTexts, isUser \in BOOLEAN :
          CallCreateMessage(c, text, isUser)
    \/ CreateMessageStep
    \/ Crash
    \/ Tick

SpecAppend == Init /\ [][NextAppend]_vars

----------------------------------------------------------------------------
(* The gateways and their credentials *)

\* transcribeAudio of server/lib/deepgram.ts with process.env.DEEPGRAM_API_KEY
\* as it is at the call: the outcome and the providers requested, in order
transcribeAudioCall(deepgramKey, capture, c) ==
    IF ~deepgramKey THEN [threw |-> TRUE, text |-> Blank, calls |-> <<>>]
    ELSE [threw |-> transcribeAudio(capture, c).threw,
          text |-> transcribeAudio(capture, c).text,
          calls |-> IF c.deepgram THEN <<"deepgram">> ELSE <<"deepgram", "whisper">>]

\* textToSpeech with process.env.ELEVENLABS_API_KEY as it is at the call:
\* without the key the newer version throws into its own catch, the older
\* one sends its placeholder key, which the service refuses
textToSpeechCall(elevenlabsKey, c) ==
    [threw |-> textToSpeech([c EXCEPT !.ok = c.ok /\ elevenlabsKey]).threw,
     buffer |-> textToSpeech([c EXCEPT !.ok = c.ok /\ elevenlabsKey]).buffer,
     calls |-> IF elevenlabsKey \/ c.lib = "throwing" THEN <<"elevenlabs">> ELSE <<>>]

\* what a gateway call leaves in lastOp
Called(gateway, key, r, text) ==
    [name |-> "gateway", status |-> 0, token |-> 0, class |-> "none",
     gateway |-> gateway, key |-> key, threw |-> r.threw, text |-> text,
     calls |-> r.calls]

CallTranscribe(deepgramKey, capture, c) ==
    /\ LET r == transcribeAudioCall(deepgramKey, capture, c)
       IN lastOp' = [name |-> "gateway", status |-> 0, token |-> 0, class |-> "none",
                     gateway |-> "transcription", key |-> deepgramKey,
                     threw |-> r.threw, text |-> r.text, calls |-> r.calls,
                     capture |-> capture, primary |-> c.deepgram,
                     secondary |-> c.whisper]
    /\ UNCHANGED <<envVars, now, users, authTokens, sessions, verifyOk, storeVars,
                   clientVars>>

CallComplete(message, mood, gw) ==
    /\ lastOp' = Called("completion", openaiKey,
                        [threw |-> getAIResponse(message, mood, gw).threw,
                         calls |-> IF openaiKey THEN <<"openai">> ELSE <<>>],
                        getAIResponse(message, mood, gw).text)
    /\ UNCHANGED <<envVars, now, users, authTokens, sessions, verifyOk, storeVars,
                   clientVars>>

CallSynthesize(elevenlabsKey, c) ==
    /\ lastOp' = Called("synthesis", elevenlabsKey, textToSpeechCall(elevenlabsKey, c),
                        <<textToSpeechCall(elevenlabsKey, c).buffer>>)
    /\ UNCHANGED <<envVars, now, users, authTokens, sessions, verifyOk, storeVars,
                   clientVars>>

\* process.env.OPENAI_API_KEY is set or deleted while the server runs
SetOpenAIKey(k) ==
    /\ openaiKey' = k
    /\ UNCHANGED <<server, storageImpl, now, authVars, storeVars, clientVars>>

NextGateways ==
    \/ \E k \in BOOLEAN, capture \in Captures, c \in SttCases :
          CallTranscribe(k, capture, c)
    \/ \E message \in GateTexts, mood \in MoodInputs, gw \in CompletionCalls :
          CallComplete(message, mood, gw)
    \/ \E k \in BOOLEAN, c \in SynthCases : CallSynthesize(k, c)
    \/ \E k \in BOOLEAN : SetOpenAIKey(k)

SpecGateways == Init /\ [][NextGateways]_vars

----------------------------------------------------------------------------
(* The persona row, field by field *)

\* undefined: the value of a field the request body does not carry
Absent == "undefined"

CustomVoiceIds == {Absent, "voice-1"}
CustomMoodSettings == {Absent, "settings-1"}

\* storage.createPersona on the whole row: MemStorage stores null for a
\* custom field that is undefined, the table has no default for them
CreatePersonaRow(userId, updates) ==
    [id |-> Len(personas) + 1, userId |-> userId,
     voice |-> updates.voice, mood |-> updates.mood,
     customVoiceId |-> IF updates.customVoiceId = Absent THEN "null"
                       ELSE updates.customVoiceId,
     customMoodSettings |-> IF updates.customMoodSettings = Absent THEN "null"
                            ELSE updates.customMoodSettings,
     createdAt |-> now, updatedAt |-> now]

\* MemStorage.updatePersona: {...persona, ...updates, updatedAt: new Date()};
\* the spread copies every own key of updates, the undefined ones included
MemUpdatePersonaRow(persona, updates) ==
    [f \in DOMAIN persona |->
        IF f = "updatedAt" THEN now
        ELSE IF f \in DOMAIN updates THEN updates[f]
        ELSE persona[f]]

\* DatabaseStorage.updatePersona: UPDATE ... SET of the columns whose value
\* is not undefined, and of updated_at
DbUpdatePersonaRow(persona, updates) ==
    [f \in DOMAIN persona |->
        IF f = "updatedAt" THEN now
        ELSE IF f \in DOMAIN updates /\ updates[f] # Absent THEN updates[f]
        ELSE persona[f]]

UpdatePersonaRow(persona, updates) ==
    IF storageImpl = "mem" THEN MemUpdatePersonaRow(persona, updates)
    ELSE DbUpdatePersonaRow(persona, updates)

\* POST /api/personas with the four fields of its body; lastOp keeps the
\* body, the row found and the time of the request
UpsertPersonaFields(s, voice, mood, customVoiceId, customMoodSettings) ==
    /\ direct < MaxRequests
    /\ direct' = direct + 1
    /\ LET r == PostPersonas(s, voice, mood)
           updates == [voice |-> voice, mood |-> mood,
                       customVoiceId |-> customVoiceId,
                       customMoodSettings |-> customMoodSettings]
       IN /\ personas' =
                IF r.status = 200
                THEN [personas EXCEPT ![r.id] = UpdatePersonaRow(@, updates)]
                ELSE IF r.status = 201
                THEN Append(personas, CreatePersonaRow(requireAuth(s), updates))
                ELSE personas
          /\ lastOp' = [name |-> "upsert", status |-> r.status, token |-> 0,
                        class |-> "none", session |-> s, body |-> updates,
                        found |-> IF r.status = 200 THEN personas[r.id] ELSE <<>>,
                        at |-> now]
    /\ UNCHANGED <<envVars, now, users, authTokens, sessions, verifyOk,
                   conversations, messages, turnVars>>

NextPersona ==
    \/ \E s \in Sessions, voice \in {"male", "female"}, mood \in {"chill", "sassy"},
          cv \in CustomVoiceIds, cms \in CustomMoodSettings :
          UpsertPersonaFields(s, voice, mood, cv, cms)
    \/ Tick

SpecPersona == InitStore /\ [][NextPersona]_vars

----------------------------------------------------------------------------
(* Logins in flight *)

\* INSERT INTO users: the column email is declared unique, so the database
\* refuses a row whose email a row already has (createUser then rejects)
DbInsertUser_NoUniqueIndex(us, email) ==
    [ok |-> TRUE, users |-> createUser(us, email)]

DbInsertUser(us, email) ==
    IF \E i \in 1..Len(us) : us[i].email = email
    THEN [ok |-> FALSE, users |-> us]
    ELSE [ok |-> TRUE, users |-> createUser(us, email)]

\* a request that is not in flight
NoRequest == [pc |-> "none", email |-> NoEmail, status |-> 0]

\* the end of POST /api/auth/login for the user row u: the token, the session
LoginAs(s, email, u, us) ==
    /\ users' = us
    /\ authTokens' = Append(authTokens, createAuthToken(email))
    /\ sessions' = [sessions EXCEPT ![s] = u]
    /\ lastOp' = [lastOp EXCEPT !.pending[s] =
                     [pc |-> "done", email |-> email, status |-> 200]]

\* POST /api/auth/login up to the answer of storage.getUserByEmail.  With
\* MemStorage nothing the handler awaits leaves the process, so it runs to
\* its end before another request is served; with DatabaseStorage the
\* handler waits for the database after the lookup when no row was found.
LoginLookup(s, email) ==
    /\ lastOp.pending[s].pc # "lookedUp"
    /\ Len(authTokens) + Cardinality({t \in Sessions : lastOp.pending[t].pc = "lookedUp"})
          < MaxTokens
    /\ LET found == getUserByEmail(email)
       IN IF found # NoUser
          THEN LoginAs(s, email, found, users)
          ELSE IF storageImpl = "mem"
          THEN LoginAs(s, email, Len(users) + 1, createUser(users, email))
          ELSE /\ lastOp' = [lastOp EXCEPT !.pending[s] =
                                [pc |-> "lookedUp", email |-> email, status |-> 0]]
               /\ UNCHANGED <<users, authTokens, sessions>>
    /\ UNCHANGED <<envVars, now, verifyOk, storeVars, clientVars>>

\* the rest of the handler once the lookup found no row: createUser, then
\* the token and the session, or the answer 500 when createUser rejects
LoginCreate(s) ==
    /\ lastOp.pending[s].pc = "lookedUp"
    /\ LET email == lastOp.pending[s].email
           r == DbInsertUser(users, email)
       IN IF r.ok
          THEN LoginAs(s, email, Len(r.users), r.users)
          ELSE /\ lastOp' = [lastOp EXCEPT !.pending[s] =
                                [pc |-> "done", email |-> email, status |-> 500]]
               /\ UNCHANGED <<users, authTokens, sessions>>
    /\ UNCHANGED <<envVars, now, verifyOk, storeVars, clientVars>>

\* POST /api/auth/verify while logins are in flight
VerifyMeanwhile(s, token) ==
    /\ lastOp.pending[s].pc # "lookedUp"
    /\ token \in 1..Len(authTokens)
    /\ LET r == validateAuthToken(token)
       IN /\ users' = r.users
          /\ authTokens' = r.authTokens
          /\ sessions' = IF r.user = NoUser THEN sessions
                         ELSE [sessions EXCEPT ![s] = r.user]
          /\ verifyOk' = IF r.user = NoUser THEN verifyOk
                         ELSE [verifyOk EXCEPT ![token] = Sat(@)]
          /\ lastOp' = [lastOp EXCEPT !.pending[s] =
                           [pc |-> "done", email |-> authTokens[token].email,
                            status |-> IF r.user = NoUser THEN 401 ELSE 200]]
    /\ UNCHANGED <<envVars, now, storeVars, clientVars>>

InitRace ==
    /\ server \in {"index", "routes"}
    /\ storageImpl \in {"mem", "db"}
    /\ openaiKey = FALSE
    /\ now = 0
    /\ users = <<>>
    /\ authTokens = <<>>
    /\ sessions = [s \in Sessions |-> 0]
    /\ personas = <<>>
    /\ conversations = <<>>
    /\ messages = <<>>
    /\ verifyOk = [k \in 1..(MaxTokens + 1) |-> 0]
    /\ lastOp = [name |-> "requests", status |-> 0, token |-> 0, class |-> "none",
                 pending |-> [s \in Sessions |-> NoRequest]]
    /\ ClientAtRest

NextRace ==
    \/ \E s \in Sessions, email \in Emails : LoginLookup(s, email)
    \/ \E s \in Sessions : LoginCreate(s)
    \/ \E s \in Sessions, token \in 1..MaxTokens : VerifyMeanwhile(s, token)
    \/ Tick

SpecRace == InitRace /\ [][NextRace]_vars

----------------------------------------------------------------------------
(* Whose persona a conversation names *)

NextOwn ==
    \/ \E s \in Sessions, voice \in Voices, mood \in {"chill", "sassy"} :
          UpsertPersona(s, voice, mood)
    \/ \E s \in Sessions, p \in PersonaRefs : OpenConversation(s, p)

SpecOwn == InitStore /\ [][NextOwn]_vars

----------------------------------------------------------------------------
(* A capture cycle of ConversationView *)

MaxCycles == 1

\* ConversationView.handleStartListening: startSpeechRecognition, whose
\* result is null in a browser without SpeechRecognition, then
\* toggleListening, which starts the recorder
handleStartListening(supported, granted) ==
    /\ started < MaxCycles
    /\ conversation # 0
    /\ ~isListening
    /\ ~isProcessing
    /\ ~isResponding
    /\ recognition' = supported
    /\ isListening' = granted
    /\ audio' = "none"
    /\ UNCHANGED <<envVars, now, authVars, storeVars, conversation, isProcessing,
                   isResponding, turns, started, direct, hist, currentTranscript,
                   recorder, player>>

\* recognition.onresult
onresult(transcript) ==
    /\ recognition
    /\ currentTranscript' = transcript
    /\ UNCHANGED <<envVars, now, authVars, storeVars, conversation, isListening,
                   isProcessing, isResponding, turns, started, direct, hist, audio,
                   recognition, recorder, player>>

\* ConversationView.handleStopListening: with a recognition and a
\* transcript it calls handleMessage(currentTranscript), and in every case
\* toggleListening, which runs useConversation.stopListening up to the
\* fetch of speechToText
handleStopListening ==
    /\ conversation # 0
    /\ isListening
    /\ ~isProcessing
    /\ ~isResponding
    /\ LET handled == recognition /\ Truthy(currentTranscript)
                        /\ Truthy(trim(currentTranscript))
           first == IF handled THEN started + 1 ELSE started
           recorded == [NoTurn EXCEPT !.kind = "process", !.pc = "stt",
                                      !.conv = conversation, !.capture = audio]
       IN /\ first + 1 <= MaxTurns
          /\ turns' = IF handled
                      THEN [turns EXCEPT ![first] = NewTurn("handle", currentTranscript),
                                         ![first + 1] = recorded]
                      ELSE [turns EXCEPT ![first + 1] = recorded]
          /\ started' = first + 1
          /\ hist' = [hist EXCEPT !.overlap = handled \/ Overlap]
          /\ currentTranscript' =
                IF recognition /\ Truthy(currentTranscript) THEN Blank
                ELSE currentTranscript
    /\ recognition' = FALSE
    /\ isListening' = FALSE
    /\ isProcessing' = TRUE
    /\ UNCHANGED <<envVars, now, authVars, storeVars, conversation, isResponding,
                   direct, audio, recorder, player>>

NextCapture ==
    \/ CreateConversation
    \/ \E supported, granted \in BOOLEAN : handleStartListening(supported, granted)
    \/ \E transcript \in {Hello, HelloSp} : onresult(transcript)
    \/ \E chunk \in {"silence", "speech"} : ondataavailable(chunk)
    \/ handleStopListening
    \/ \E t \in Turns, c \in SttCases : SpeechToText(t, c)
    \/ \E t \in Turns, gw \in CompletionCalls : PostUserMessage(t, gw)
    \/ \E t \in Turns, gw \in CompletionCalls : Chat(t, gw)
    \/ \E t \in Turns : PostAiMessage(t)
    \/ \E t \in Turns, c \in SynthCases : TextToSpeech(t, c)
    \/ \E t \in Turns, played \in BOOLEAN : Play(t, played)
    \/ \E t \in Turns : ListMessages(t)

SpecCapture == Init /\ [][NextCapture]_vars

----------------------------------------------------------------------------
(* The capture path with every awaited call settling *)

\* fetch rejects (the network is down) while turn t awaits it: the catch of
\* stopListening when the transcription was awaited, the catch and finally
\* of processMessage afterwards
FetchRejects(t) ==
    /\ turns[t].pc \in {"stt", "postUser", "chat", "postAI", "tts"}
    /\ IF turns[t].pc = "stt"
       THEN /\ turns' = [turns EXCEPT ![t] = NoTurn]
            /\ isProcessing' = FALSE
            /\ hist' = Ended(turns[t], FALSE)
            /\ UNCHANGED isResponding
       ELSE Fail(t)
    /\ UNCHANGED <<envVars, now, authVars, storeVars, conversation, started,
                   direct, voiceVars>>

\* the continuation of turn t after one of its awaited calls has settled:
\* fetch resolves or rejects, the player's promise settles
TurnStep(t) ==
    \/ FetchRejects(t)
    \/ \E c \in SttCases : SpeechToText(t, c)
    \/ \E gw \in CompletionCalls : PostUserMessage(t, gw)
    \/ \E gw \in CompletionCalls : Chat(t, gw)
    \/ PostAiMessage(t)
    \/ \E c \in SynthCases : TextToSpeech(t, c)
    \/ \E played \in BOOLEAN : Play(t, played)

\* Every awaited call of a turn settles, so the code after the await runs;
\* a capture lasts until the user toggles the microphone again, and the user
\* does so.  Starting a capture, recording a chunk and opening a conversation
\* are never forced.
NextVoiceFair ==
    \/ CreateConversation
    \/ \E granted \in BOOLEAN : startListening(granted)
    \/ \E chunk \in {"silence", "speech"} : ondataavailable(chunk)
    \/ stopListening
    \/ \E t \in Turns : TurnStep(t)

SpecVoiceFair ==
    /\ Init
    /\ [][NextVoiceFair]_vars
    /\ WF_vars(stopListening)
    /\ \A t \in Turns : WF_vars(TurnStep(t))

----------------------------------------------------------------------------
(* Interim transcription: the interval callback up to its fetch, and the   *)
(* code after the fetch                                                    *)

MaxInterim == 2

\* the callback of window.setInterval of handle h up to its fetch of
\* /api/speech-to-text: nothing is sent while no chunk has been recorded
IntervalSends(h) ==
    /\ h \in recorder.timers
    /\ audio # "none"
    /\ Len(recorder.inflight) < MaxInterim
    /\ recorder' = [recorder EXCEPT !.inflight = Append(@, audio)]
    /\ UNCHANGED <<envVars, now, authVars, storeVars, conversation, isListening,
                   isProcessing, isResponding, turns, started, direct, hist, audio,
                   currentTranscript, recognition, player>>

\* the fetch of the i-th interim request settles and the callback runs on:
\* the text goes to liveTranscriptionCallback when the response is ok and
\* the text is not empty; the field is set by start and cleared by nothing
InterimSettles(i, c) ==
    /\ i \in 1..Len(recorder.inflight)
    /\ LET r == Stt(ClientSession, recorder.inflight[i], c)
           delivered == r.status = 200 /\ Truthy(r.text)
           rest == [k \in 1..(Len(recorder.inflight) - 1) |->
                       IF k < i THEN recorder.inflight[k]
                       ELSE recorder.inflight[k + 1]]
       IN /\ recorder' = [recorder EXCEPT
                             !.inflight = rest,
                             !.liveTranscript = IF delivered /\ recorder.mounted
                                                THEN r.text ELSE @]
          /\ lastOp' = [name |-> "interim", status |-> r.status, token |-> 0,
                        class |-> "none", delivered |-> delivered,
                        text |-> r.text,
                        recording |-> recorder.mediaRecorder = "recording"]
    /\ UNCHANGED <<envVars, now, users, authTokens, sessions, verifyOk, storeVars,
                   conversation, isListening, isProcessing, isResponding, turns,
                   started, direct, hist, audio, currentTranscript, recognition,
                   player>>

NextInterim ==
    \/ CreateConversation
    \/ toggleListening
    \/ \E outcome \in StartOutcomes : getUserMedia(outcome)
    \/ \E chunk \in {"silence", "speech"} : ondataavailable(chunk)
    \/ \E h \in 1..MaxStarts : IntervalSends(h)
    \/ \E i \in 1..MaxInterim, c \in SttCases : InterimSettles(i, c)

SpecInterim == Init /\ [][NextInterim]_vars

----------------------------------------------------------------------------
(* Properties of a turn (Spec) *)

\* C1: in every turn the chat-completion request is sent only once the
\* turn's user message is persisted, the speech-synthesis request only once
\* the turn's AI message is persisted, and no reply row of a turn precedes
\* the turn's user row.
OrderingWithinTurn ==
    \A t \in Turns :
        /\ turns[t].pc \in {"chat", "postAI", "tts", "play", "list"} =>
              /\ turns[t].userMsg \in 1..Len(messages)
              /\ messages[turns[t].userMsg].isUserMessage
              /\ messages[turns[t].userMsg].turn = t
              /\ messages[turns[t].userMsg].content = UserContent(turns[t])
        /\ turns[t].pc \in {"tts", "play", "list"} =>
              /\ turns[t].aiMsg \in 1..Len(messages)
              /\ ~messages[turns[t].aiMsg].isUserMessage
              /\ messages[turns[t].aiMsg].turn = t
              /\ messages[turns[t].aiMsg].content = turns[t].aiText
        /\ \A i \in 1..Len(messages) :
              (messages[i].turn = t /\ ~messages[i].isUserMessage) =>
                  \E j \in 1..(i - 1) :
                      messages[j].turn = t /\ messages[j].isUserMessage

\* a turn of processMessage waits for the synthesis request
SynthesisRequested ==
    \E t \in Turns : turns[t].kind = "process" /\ turns[t].pc = "tts"

\* C3: two turns of one conversation are never in progress together.
TurnsNeverOverlap ==
    \A t, u \in Turns :
        (InProgress(t) /\ InProgress(u) /\ turns[t].conv = turns[u].conv) => t = u

\* C4: once n turns of a conversation, each started after the one before
\* had ended, have completed and none has failed, the conversation lists
\* exactly 2n messages, alternately from the user and from the AI.
SequentialTurnsPersistPairs ==
    \A c \in 1..Len(conversations) :
        (~hist.overlap /\ ~hist.failed[c] /\ \A t \in Turns : ~InProgress(t)) =>
            /\ Len(getMessagesByConversationId(c)) = 2 * hist.completed[c]
            /\ \A i \in 1..Len(getMessagesByConversationId(c)) :
                  getMessagesByConversationId(c)[i].isUserMessage = (i % 2 = 1)

\* C5: a turn in which a chat-completion call failed has a non-empty AI
\* message persisted for it, carries a non-empty reply once the chat request
\* has answered, and goes on to playback (or to the final list request):
\* no request of the turn sends it to the error branch.
ChatFailureAbsorbed ==
    /\ [](\A t \in Turns :
            turns[t].chatFailed =>
                /\ \E i \in 1..Len(messages) :
                      /\ messages[i].turn = t
                      /\ ~messages[i].isUserMessage
                      /\ Truthy(messages[i].content)
                /\ \A i \in 1..Len(messages) :
                      (messages[i].turn = t /\ ~messages[i].isUserMessage) =>
                          Truthy(messages[i].content)
                /\ turns[t].pc \in {"postAI", "tts", "play", "list"} =>
                      Truthy(turns[t].aiText))
    /\ [][\A t \in Turns :
            (turns[t].chatFailed /\ turns'[t].pc = "idle") =>
                turns[t].pc \in {"play", "list"}]_vars

\* a turn of processMessage whose chat-completion call failed has reached
\* playback
ChatFailedTurnPlays ==
    \E t \in Turns :
        /\ turns[t].chatFailed
        /\ turns[t].kind = "process"
        /\ turns[t].pc = "play"
        /\ turns[t].aiText = Apology

\* C6: the synthesis step of a turn never fails the turn and always yields
\* a non-empty audioUrl, also when the synthesis service fails.
SynthesisFailureAbsorbed ==
    /\ [](\A t \in Turns : turns[t].ttsFailed =>
            turns[t].pc = "play" /\ turns[t].audioUrl # "")
    /\ [][\A t \in Turns :
            (turns[t].pc = "tts" /\ turns'[t].pc # "tts") =>
                turns'[t].pc = "play" /\ turns'[t].audioUrl # ""]_vars

\* a turn whose synthesis call failed plays the fallback audio
FallbackAudioPlays ==
    \E t \in Turns :
        /\ turns[t].ttsFailed
        /\ turns[t].pc = "play"
        /\ turns[t].audioUrl = "/uploads/fallback.mp3"

\* C8: no user message whose text is empty or only whitespace is persisted.
BlankTextNeverPersisted ==
    \A i \in 1..Len(messages) :
        messages[i].isUserMessage => Truthy(trim(messages[i].content))

----------------------------------------------------------------------------
(* Properties of the endpoints (SpecApi) *)

\* C2: in the list of every conversation each AI message comes after some
\* user message.
EveryReplyFollowsUserMessage ==
    \A c \in 1..Len(conversations) :
        \A i \in 1..Len(getMessagesByConversationId(c)) :
            ~getMessagesByConversationId(c)[i].isUserMessage =>
                \E j \in 1..(i - 1) : getMessagesByConversationId(c)[j].isUserMessage

----------------------------------------------------------------------------
(* Properties of voice capture (SpecVoice) *)

\* C7: a turn whose capture buffered no speech never gets past the
\* transcription request and has no message persisted for it.
NoSpeechNoMessage ==
    \A t \in Turns :
        turns[t].capture \in {"none", "silence"} =>
            /\ turns[t].pc = "stt"
            /\ \A i \in 1..Len(messages) : messages[i].turn # t

----------------------------------------------------------------------------
(* Properties of sign-in (SpecAuth, SpecAuthMem) *)

\* C9: no token is verified successfully more than once.
VerifyAtMostOnce ==
    \A k \in DOMAIN verifyOk : verifyOk[k] <= 1

LoginResolvesOneUser ==
    /\ [](\A i, j \in 1..Len(users) : users[i].email = users[j].email => i = j)
    /\ [][(lastOp'.name = "login" /\ lastOp'.status = 200 /\ lastOp' # lastOp) =>
            \E u \in 1..Len(users') :
                /\ users'[u].email = authTokens'[lastOp'.token].email
                /\ \E s \in Sessions : sessions' = [sessions EXCEPT ![s] = u]
                /\ IF \E i \in 1..Len(users) : users[i].email = users'[u].email
                   THEN users' = users
                   ELSE Len(users') = Len(users) + 1]_vars

\* the same email has logged in twice and still has one row
SecondLoginSameUser ==
    /\ lastOp.name = "login"
    /\ lastOp.status = 200
    /\ \E i, j \in 1..Len(authTokens) :
          i # j /\ authTokens[i].email = authTokens[j].email
    /\ Len(users) = 1

----------------------------------------------------------------------------
(* Properties of the gated endpoints (SpecGate) *)

\* C12: in every reachable state, each gated operation invoked on a session
\* that is bound to no existing user answers 401 and leaves the users,
\* personas, conversations and messages as they are; and a step that answers
\* a gated request with 401 changes none of the four.
UnauthenticatedChangesNothing ==
    /\ [](\A s \in Sessions : requireAuth(s) = NoUser =>
            /\ GetMe(s).status = 401
            /\ GetCurrentPersona(s).status = 401
            /\ \A voice \in VoiceInputs, mood \in MoodInputs :
                  /\ PostPersonas(s, voice, mood).status = 401
                  /\ PostPersonas(s, voice, mood).personas = personas
            /\ \A personaId \in 0..1 :
                  /\ PostConversations(s, personaId).status = 401
                  /\ PostConversations(s, personaId).conversations = conversations
            /\ \A id \in 0..(MaxConversations + 1) :
                  \A rows \in ListResults(id) :
                      GetConversationMessages(s, id, rows).status = 401
            /\ \A c \in 0..(MaxConversations + 1), text \in GateTexts,
                  gw \in CompletionCalls :
                  /\ PostChat(s, c, text, "", 0, gw).status = 401
                  /\ PostChat(s, c, text, "", 0, gw).store = Store
                  /\ \A isUser \in BOOLEAN :
                        /\ PostMessages(s, c, text, isUser, 0, gw).status = 401
                        /\ PostMessages(s, c, text, isUser, 0, gw).store = Store
            /\ \A capture \in Captures, c \in SttCases : Stt(s, capture, c).status = 401
            /\ \A text \in GateTexts, c \in SynthCases : Tts(s, text, c).status = 401)
    /\ [][(direct' # direct /\ lastOp'.name \in GateNames) =>
            IF requireAuth(lastOp'.session) = NoUser
            THEN /\ lastOp'.status = 401
                 /\ UNCHANGED <<users, personas, conversations, messages>>
            ELSE lastOp'.status # 401]_vars

SignedOutRequestRefused ==
    /\ lastOp.name \in GateNames
    /\ lastOp.status = 401
    /\ requireAuth(lastOp.session) = NoUser
    /\ direct > 0

\* C13: a logout is answered 200 whether or not its session is bound to a
\* user and leaves the session bound to none; a session bound to no user
\* stays so until a login or a verify answered 200; and every gated request
\* on a session bound to no user is answered 401.
LogoutUnbindsSession ==
    /\ [][(direct' # direct /\ lastOp'.name = "logout") =>
            /\ lastOp'.status = 200
            /\ sessions' = [sessions EXCEPT ![lastOp'.session] = 0]]_vars
    /\ [][\A s \in Sessions : (sessions[s] = 0 /\ sessions'[s] # 0) =>
            (lastOp'.name \in {"login", "verify"} /\ lastOp'.status = 200)]_vars
    /\ [][(direct' # direct /\ lastOp'.name \in GateNames
             /\ sessions[lastOp'.session] = 0) => lastOp'.status = 401]_vars

LoggedOutThenRefused ==
    /\ lastOp.name \in GateNames
    /\ lastOp.session = ClientSession
    /\ lastOp.status = 401
    /\ sessions[ClientSession] = 0

\* C14: every user has at most one persona row; an upsert of a user without
\* a row inserts one, and an upsert of a user with a row rewrites that row,
\* keeping its id and the number of rows.
OnePersonaPerUser ==
    /\ [](\A u \in 1..Len(users) : Len(getPersonasByUserId(u)) <= 1)
    /\ [][(direct' # direct /\ lastOp'.name = "personas"
             /\ lastOp'.status \in {200, 201}) =>
            LET u == requireAuth(lastOp'.session)
                before == getPersonasByUserId(u)
            IN IF Len(before) = 0
               THEN /\ lastOp'.status = 201
                    /\ Len(personas') = Len(personas) + 1
                    /\ personas'[Len(personas')].userId = u
                    /\ \A i \in 1..Len(personas) : personas'[i] = personas[i]
               ELSE /\ lastOp'.status = 200
                    /\ Len(personas') = Len(personas)
                    /\ \A i \in 1..Len(personas) :
                          /\ personas'[i].id = personas[i].id
                          /\ personas'[i].userId = personas[i].userId
                          /\ i # before[1].id => personas'[i] = personas[i]]_vars

SecondUpsertUpdates ==
    /\ lastOp.name = "personas"
    /\ lastOp.status = 200
    /\ requireAuth(lastOp.session) = 2
    /\ Len(personas) = 2
    /\ Len(getPersonasByUserId(2)) = 1

\* C15: a persona upsert whose voice or mood is missing or outside its
\* enumerated set stores nothing, so every stored persona row has its
\* voice in Voices and its mood in Moods.
PersonaValuesEnumerated ==
    \A i \in 1..Len(personas) :
        /\ personas[i].voice \in Voices
        /\ personas[i].mood \in Moods

\* C19: for a signed-in requester and an existing conversation of another
\* user, listing its messages is answered 403 with no message, and
\* appending a message to it or asking a chat reply for it is answered 403
\* (400 when the body carries no text, never 404) with no text and an
\* unchanged store; a step answered 403 changes no stored row.
ForeignConversationForbidden ==
    /\ [](\A s \in Sessions, c \in 1..Len(conversations) :
            (requireAuth(s) # NoUser /\ conversations[c].userId # requireAuth(s)) =>
               /\ \A rows \in ListResults(c) :
                     GetConversationMessages(s, c, rows) =
                        [status |-> 403, messages |-> <<>>]
               /\ \A text \in GateTexts, gw \in CompletionCalls :
                     LET want == IF Truthy(text) THEN 403 ELSE 400
                     IN /\ PostChat(s, c, text, "", 0, gw) = Reject(want)
                        /\ \A isUser \in BOOLEAN :
                              PostMessages(s, c, text, isUser, 0, gw) = Reject(want))
    /\ [][(direct' # direct /\ lastOp'.name \in {"list", "messages", "chat"}
             /\ lastOp'.status = 403) =>
            UNCHANGED <<users, personas, conversations, messages>>]_vars

ForeignRequestAnswered403 ==
    /\ lastOp.name \in {"list", "messages", "chat"}
    /\ lastOp.status = 403
    /\ \E c \in 1..Len(conversations) :
          conversations[c].userId # requireAuth(lastOp.session)

----------------------------------------------------------------------------
(* Properties of the stored conversations and messages (SpecStore) *)

\* C16: under either storage implementation, the updatedAt of the
\* conversation of every message is at least the createdAt of the message.
AppendBumpsUpdatedAt ==
    \A i \in 1..Len(messages) :
        conversations[messages[i].conversationId].updatedAt >= messages[i].createdAt

\* C17: for a signed-in user, the most recent conversation answered is one
\* of the user's conversations of greatest updatedAt, with exactly its
\* messages in non-decreasing createdAt order; no conversation is answered
\* when the user has none.
RecentIsGreatestUpdatedAt ==
    LET MaxUpdatedAt(userId, c) ==
            /\ c \in 1..Len(conversations)
            /\ conversations[c].userId = userId
            /\ \A d \in 1..Len(conversations) :
                  conversations[d].userId = userId =>
                     conversations[d].updatedAt <= conversations[c].updatedAt
        ExactlyTheRowsOf(c, rows) ==
            /\ Len(rows) = Len(getMessagesByConversationId(c))
            /\ \A i \in 1..Len(messages) :
                  messages[i].conversationId = c =>
                     \E k \in 1..Len(rows) : rows[k] = messages[i]
    IN
    \A s \in Sessions :
        requireAuth(s) # NoUser =>
            \A first \in FirstConversations(requireAuth(s)) :
                \A rows \in ListResults(first) :
                    LET r == GetRecent(s, first, rows)
                    IN IF Len(getConversationsByUserId(requireAuth(s))) = 0
                       THEN r.conversation = 0
                       ELSE /\ r.status = 200
                            /\ MaxUpdatedAt(requireAuth(s), r.conversation)
                            /\ ExactlyTheRowsOf(r.conversation, r.messages)
                            /\ \A i \in 1..(Len(r.messages) - 1) :
                                  r.messages[i].createdAt <= r.messages[i + 1].createdAt

\* C18: every list storage.getMessagesByConversationId may return holds
\* exactly the messages of the conversation, in non-decreasing createdAt
\* order, and rows of equal createdAt in the order of their ids.
ListedByCreatedAtThenId ==
    \A c \in 1..Len(conversations) :
        \A rows \in ListResults(c) :
            /\ Len(rows) = Len(SelectSeq(messages, LAMBDA m : m.conversationId = c))
            /\ \A i \in 1..Len(messages) :
                  messages[i].conversationId = c =>
                     \E k \in 1..Len(rows) : rows[k] = messages[i]
            /\ \A i \in 1..(Len(rows) - 1) :
                  \/ rows[i].createdAt < rows[i + 1].createdAt
                  \/ /\ rows[i].createdAt = rows[i + 1].createdAt
                     /\ rows[i].id < rows[i + 1].id

----------------------------------------------------------------------------
(* Properties of the recorder (SpecRecorder) *)

\* C20: whenever a live-transcription timer is scheduled, the component is
\* mounted and its recorder is capturing, and the timer is the one the
\* recorder holds the handle of.
TimerOnlyWhileCapturing ==
    recorder.timers # {} =>
        /\ recorder.mounted
        /\ recorder.mediaRecorder = "recording"
        /\ recorder.timers = {recorder.transcriptionInterval}

\* C21: every microphone stream that is open is the one the recorder holds,
\* and the recorder is capturing from it.
StreamReleasedOnEveryExit ==
    recorder.streams # {} =>
        /\ recorder.streams = {recorder.stream}
        /\ recorder.mediaRecorder = "recording"

----------------------------------------------------------------------------
(* Properties of the player (SpecPlayer) *)

AtMostOnePlayback ==
    (IF player.element = "playing" THEN 1 ELSE 0) + player.sounds <= 1

----------------------------------------------------------------------------
(* Properties of the reply (SpecReply) *)

\* C24: a POST /api/chat answered 200 whose chat-completion call failed
\* replies with the keyword fallback of its message; the failure never
\* arrives as the text of the reply.
FailedCompletionFallsBack ==
    (lastOp.name = "chat" /\ lastOp.status = 200 /\ lastOp.failed)
        => lastOp.text = KeywordFallback(lastOp.message)

\* C25: every reply generated, on each of the three paths, is generated in
\* the mood of the override when the request carries one, else the mood of
\* the persona the conversation refers to when that persona exists, else
\* "chill": the system instruction of the prompt is that mood's, and
\* without a credential the mock reply is that mood's.
ReplyInEffectiveMood ==
    LET expected ==
            IF lastOp.override # "" THEN lastOp.override
            ELSE IF \E p \in 1..Len(personas) :
                       personas[p].id = conversations[lastOp.conv].personaId
                 THEN personas[conversations[lastOp.conv].personaId].mood
                 ELSE "chill"
    IN (lastOp.name \in {"chat", "handleChat", "messages"} /\ lastOp.text # Blank)
          => IF openaiKey
             THEN lastOp.prompt[1] =
                      [role |-> "system", content |-> getMoodPrompt(expected)]
             ELSE lastOp.text = moodResponses(expected)

\* C27: every prompt sent is one system instruction, then the rows the
\* conversation had before the request, each once, in an order of
\* non-decreasing createdAt, with role user or assistant by isUserMessage,
\* then the new user text as the one last entry.
PromptIsHistoryThenText ==
    LET prior == SelectSeq(messages, LAMBDA m : /\ m.conversationId = lastOp.conv
                                                /\ m.id <= lastOp.before)
        n == Len(prior)
        chronological ==
            {[i \in 1..n |-> prior[q[i]]] :
               q \in {f \in [1..n -> 1..n] :
                        /\ \A i, j \in 1..n : f[i] = f[j] => i = j
                        /\ \A i \in 1..(n - 1) :
                              prior[f[i]].createdAt <= prior[f[i + 1]].createdAt}}
        p == lastOp.prompt
    IN (lastOp.name \in {"chat", "handleChat", "messages"} /\ lastOp.prompt # <<>>)
          => /\ Len(p) = n + 2
             /\ p[1].role = "system"
             /\ p[n + 2] = [role |-> "user", content |-> lastOp.message]
             /\ \E rows \in chronological :
                   \A i \in 1..n :
                      p[i + 1] = [role |-> IF rows[i].isUserMessage THEN "user"
                                           ELSE "assistant",
                                  content |-> rows[i].content]

----------------------------------------------------------------------------
(* Properties of the keyword replies (SpecFallback) *)

\* C26: the fallback reply of POST /api/chat to a message is never empty
\* and is the reply of the first rule its lowercased text matches, in the
\* order greeting, "how are you", "help", one of bad, sad and sucks, and
\* the listening reply when none matches.
FallbackFirstMatchWins ==
    LET t == toLowerCase(lastOp.message)
        expected ==
            IF includes(t, <<"hello">>) \/ includes(t, <<"hi", " ">>)
            THEN <<"Hello! I'm your AI Besty.">>
            ELSE IF includes(t, <<"how", " ", "are", " ", "you">>)
            THEN <<"I'm doing well, thanks for asking!">>
            ELSE IF includes(t, <<"help">>)
            THEN <<"I'm here to help!">>
            ELSE IF \E w \in {"bad", "sad", "sucks"} : includes(t, <<w>>)
            THEN <<"I'm sorry to hear that things aren't going well.">>
            ELSE <<"I'm listening! Tell me more about what's on your mind today.">>
    IN lastOp.name = "fallback"
          => lastOp.server # Blank /\ lastOp.server = expected

----------------------------------------------------------------------------
(* Properties of createMessage, statement by statement (SpecAppend) *)

\* C28: in every state of a createMessage call, between its statements and
\* after a crash in it included, the call has written the conversation's
\* updatedAt only if its message row is in the table; a call that crashed
\* before the write left updatedAt as it was.
BumpOnlyAfterInsert ==
    lastOp.name = "createMessage" =>
        (lastOp.bumped =>
            \E i \in 1..Len(messages) :
                messages[i].id = lastOp.id /\ messages[i].conversationId = lastOp.conv)

CrashedBetweenInsertAndBump ==
    /\ storageImpl = "db"
    /\ lastOp.name = "createMessage"
    /\ lastOp.crashed
    /\ ~lastOp.bumped
    /\ \E i \in 1..Len(messages) :
          /\ messages[i].id = lastOp.id
          /\ messages[i].conversationId = lastOp.conv
          /\ conversations[lastOp.conv].updatedAt < messages[i].createdAt

----------------------------------------------------------------------------
(* Properties of the gateways (SpecGateways) *)

\* C29: a call of the transcription gateway that fails has requested the
\* primary provider once and then the secondary once; a call whose primary
\* provider answers returns its transcript without a request to the
\* secondary, and a call whose secondary answers returns its transcript.
FailureAfterBothProviders ==
    (lastOp.name = "gateway" /\ lastOp.gateway = "transcription") =>
        /\ lastOp.threw => lastOp.calls = <<"deepgram", "whisper">>
        /\ ~lastOp.threw =>
              /\ lastOp.text = Heard(lastOp.capture)
              /\ lastOp.calls = IF lastOp.primary THEN <<"deepgram">>
                                ELSE <<"deepgram", "whisper">>

\* C30: a call of a gateway made while its credential is absent does not
\* fail and requests no provider, whatever the credential was before.
AbsentCredentialSelectsMock ==
    (lastOp.name = "gateway" /\ ~lastOp.key) =>
        ~lastOp.threw /\ lastOp.calls = <<>>

----------------------------------------------------------------------------
(* Properties of the persona row (SpecPersona) *)

\* C31: after an upsert answered 200 the row found keeps its id, userId
\* and createdAt, has the voice and mood of the request and the time of the
\* request as updatedAt, and keeps the stored customVoiceId and
\* customMoodSettings when the request carried none.
UpsertKeepsUnprovidedFields ==
    (lastOp.name = "upsert" /\ lastOp.status = 200) =>
        LET b == lastOp.found
            a == personas[b.id]
        IN /\ a.id = b.id /\ a.userId = b.userId /\ a.createdAt = b.createdAt
           /\ a.voice = lastOp.body.voice /\ a.mood = lastOp.body.mood
           /\ a.updatedAt = lastOp.at
           /\ lastOp.body.customVoiceId = Absent => a.customVoiceId = b.customVoiceId
           /\ lastOp.body.customMoodSettings = Absent =>
                 a.customMoodSettings = b.customMoodSettings

----------------------------------------------------------------------------
(* Properties of the routes of conversations (SpecStore) *)

\* C32: a GET of /api/conversations/recent by a signed-in user is answered
\* 200 by the most-recent-conversation operation, with a conversation and
\* its messages or with none; it is never answered as the lookup of a
\* conversation by an id that is not a number.
RecentReachesItsHandler ==
    (lastOp.name = "recent" /\ requireAuth(lastOp.session) # NoUser)
        => lastOp.status = 200 /\ lastOp.status # GetConversation(lastOp.session, 0).status

----------------------------------------------------------------------------
(* Properties of logins in flight (SpecRace) *)

\* C33: in every state, while logins and verifies of one email are in
\* flight between their lookup and their creation of the user included, no
\* two User rows share an email.
EmailUniqueUnderInterleaving ==
    \A i, j \in 1..Len(users) : users[i].email = users[j].email => i = j

\* two logins of one new email both found no row; one created the user and
\* the other was refused by the table
SecondCreateRefused ==
    /\ \E s, t \in Sessions :
          /\ s # t
          /\ lastOp.pending[s] = [pc |-> "done", email |-> lastOp.pending[t].email,
                                  status |-> 200]
          /\ lastOp.pending[t].pc = "done"
          /\ lastOp.pending[t].status = 500
    /\ Len(users) = 1

----------------------------------------------------------------------------
(* Properties of the persona a conversation names (SpecOwn) *)

\* C34: in every state the personaId of a conversation is none or the id
\* of a persona row whose userId is the conversation's userId.
ConversationPersonaIsOwn ==
    \A c \in 1..Len(conversations) :
        conversations[c].personaId # 0 =>
            /\ conversations[c].personaId \in 1..Len(personas)
            /\ personas[conversations[c].personaId].userId = conversations[c].userId

----------------------------------------------------------------------------
(* Properties of a capture cycle (SpecCapture) *)

\* C35: the user messages persisted are never more than the capture cycles
\* there have been: one start and one stop of listening persist at most
\* one user message.
OneUserMessagePerCycle ==
    Cardinality({i \in 1..Len(messages) : messages[i].isUserMessage}) <= MaxCycles

NoInterimAfterStop ==
    (lastOp.name = "interim" /\ lastOp.delivered) => lastOp.recording

\* C38: The Memory and the Persistent storage are observationally equivalent:
\* after the same operations the same operation returns the same result.  Here
\* for updatePersona after createPersona: the row returned for the update of a
\* stored row is the same whichever implementation performs it.
StoragesReturnTheSameRow ==
    (lastOp.name = "upsert" /\ lastOp.status = 200) =>
        MemUpdatePersonaRow(lastOp.found, lastOp.body)
            = DbUpdatePersonaRow(lastOp.found, lastOp.body)
============================================================================
